---- MODULE Spec2Model ----
(***************************************************************************)
(* State-machine model of the cita-cloud controller core: the              *)
(* Authentication history window (src/src/auth.rs), the Chain fork manager *)
(* (src/src/chain.rs) and the send_raw_transaction path                    *)
(* (src/src/controller.rs).  Hashes are modelled as injective tags of the  *)
(* data they cover; external services (KMS, Consensus, Storage, Executor)  *)
(* answer nondeterministically.                                            *)
(***************************************************************************)
EXTENDS Integers, Sequences, FiniteSets, TLC

VARIABLES
    init_block_number,     \* the height read from storage at start-up (main.rs)
    block_delay_number,    \* Chain.block_delay_number (configuration)
    block_number,          \* Chain.block_number
    block_hash,            \* Chain.block_hash
    fork_tree,             \* Chain.fork_tree: sequence of maps hash -> Block
    main_chain,            \* Chain.main_chain
    main_chain_tx_hash,    \* Chain.main_chain_tx_hash
    candidate_block,       \* Chain.candidate_block: NoCandidate or <<height, hash, block>>
    history_hashes,        \* Authentication.history_hashes: height -> list of tx hashes
    current_block_number,  \* Authentication.current_block_number
    sys_config,            \* SystemConfig: lock_id -> [payload, head]
    pool,                  \* Pool: raw transactions in insertion order
    finalized,             \* history: height -> tx hashes of the block finalized there
    committed,             \* history: the (height, proposal) pairs commit_block accepted
    crashed,               \* the process has panicked
    last,                  \* the last handler that ran and the kind of its result
    tasks,                 \* per task: the operation it runs and its position in it
    locks,                 \* per RwLock: the guards held and the tasks queued for it
    stored,                \* Storage: region 0 (height, hash, head per lock_id), regions
                           \* 1, 4, 6 and 8
    in_flight              \* rpc_send_raw_transaction calls between check_raw_tx and enqueue

vars == <<init_block_number, block_delay_number, block_number, block_hash, fork_tree,
          main_chain, main_chain_tx_hash, candidate_block, history_hashes,
          current_block_number, sys_config, pool, finalized, committed, crashed, last,
          tasks, locks, stored, in_flight>>

chainVars == <<block_number, block_hash, fork_tree, main_chain, main_chain_tx_hash,
               candidate_block>>
authVars == <<history_hashes, current_block_number, sys_config>>
confVars == <<init_block_number, block_delay_number>>
\* the tasks: their locks, and the requests they carry from one guard to the next
lockVars == <<tasks, locks, in_flight>>

-----------------------------------------------------------------------------
(* Bounds of the model *)

\* block_delay_number is drawn from 0..MaxDelay
MaxDelay == 1
\* no block is finalized once block_number is this far above the start height
MaxAdvance == 1
\* at most this many blocks are held in the fork tree at once
MaxForkBlocks == 1
\* the number of tasks that run handlers concurrently
MaxTasks == 2

(* Program constants *)
BLOCKLIMIT == 100
FORCE_IN_SYNC == 6
PoolCapacity == 500

-----------------------------------------------------------------------------
(* Generic helpers *)

Range(s) == {s[i] : i \in DOMAIN s}

\* a HashMap with no entries
EmptyMap == <<>>

\* HashMap::remove
MapRemove(m, k) == [x \in (DOMAIN m) \ {k} |-> m[x]]

\* HashMap::insert
MapInsert(m, k, v) == [x \in (DOMAIN m) \cup {k} |-> IF x = k THEN v ELSE m[x]]

\* a faulty commit_block that keeps the finalized hashes in main_chain_tx_hash
SeqFilterOutNone(s, drop) == s

\* commit_block, lines 599-605: main_chain_tx_hash without the finalized hashes
\* (iter().cloned().filter(|hash| !finalized_tx_hash_list.contains(hash)))
RECURSIVE SeqFilterOut(_, _)
SeqFilterOut(s, drop) ==
    IF s = <<>> THEN <<>>
    ELSE IF Head(s) \in drop THEN SeqFilterOut(Tail(s), drop)
         ELSE <<Head(s)>> \o SeqFilterOut(Tail(s), drop)

\* Vec::reverse
Reverse(s) == [i \in 1..Len(s) |-> s[Len(s) + 1 - i]]

-----------------------------------------------------------------------------
(* Transactions *)

ZeroHash == "0x00"

\* vec![0u8; 32] as a chain id
ZeroChainId == "chain-0x00"

LOCK_ID_CHAIN_ID == "CHAIN_ID"
LOCK_ID_ADMIN == "ADMIN"
LOCK_ID_BLOCK_INTERVAL == "BLOCK_INTERVAL"
LOCK_ID_VALIDATORS == "VALIDATORS"
LockIds == {LOCK_ID_CHAIN_ID, LOCK_ID_ADMIN, LOCK_ID_BLOCK_INTERVAL, LOCK_ID_VALIDATORS}

\* RawTransaction { tx: Some(NormalTx(UnverifiedTransaction)) }
NormalTx(hash, vub) ==
    [kind |-> "normal", transaction_hash |-> hash, has_witness |-> TRUE,
     has_transaction |-> TRUE, version |-> 0, nonce_len |-> 3,
     valid_until_block |-> vub, value_len |-> 32, chain_id |-> ZeroChainId]

\* RawTransaction { tx: Some(UtxoTx(UnverifiedUtxoTransaction)) }
UtxoTx(hash, lock, pre, out) ==
    [kind |-> "utxo", transaction_hash |-> hash, has_transaction |-> TRUE,
     lock_id |-> lock, pre_tx_hash |-> pre, output |-> out, witnesses |-> 1]

\* RawTransaction { tx: None }
NoneTx == [kind |-> "none"]

\* n1 is within its valid_until_block window at the start height and one above
TxN1(n0) == NormalTx("n1", n0 + 2)
TxU1 == UtxoTx("u1", LOCK_ID_VALIDATORS, ZeroHash, "validators-1")
TxU2 == UtxoTx("u2", LOCK_ID_VALIDATORS, "u1", "validators-2")
TxU3 == UtxoTx("u3", LOCK_ID_ADMIN, ZeroHash, "admin-3")
TxU4 == UtxoTx("u4", LOCK_ID_CHAIN_ID, ZeroHash, "chain-1")

\* the raw transactions clients and peers submit
RawTxInputs(n0) ==
    {TxN1(n0), TxU1, NoneTx,
     [TxN1(n0) EXCEPT !.version = 1],
     [TxN1(n0) EXCEPT !.has_witness = FALSE]}

\* the raw transactions of the admission path: n1 and u1, a transaction due at
\* the next height, one valid only from the next height on, one already past,
\* and one for each structural check that fails
AdmitTxs(n0) ==
    {TxN1(n0), TxU1, NoneTx,
     NormalTx("n-due", n0 + 1),
     NormalTx("n-far", n0 + BLOCKLIMIT + 1),
     NormalTx("n-past", n0),
     [NormalTx("n-version", n0) EXCEPT !.version = 1],
     [NormalTx("n-nonce", n0 + 2) EXCEPT !.nonce_len = 129],
     [NormalTx("n-value", n0 + 2) EXCEPT !.value_len = 31],
     [NormalTx("n-chain", n0 + 2) EXCEPT !.chain_id = "chain-1"],
     [TxN1(n0) EXCEPT !.has_witness = FALSE],
     [TxN1(n0) EXCEPT !.has_transaction = FALSE]}

\* the block bodies proposers build
Bodies(n0) == {<<>>, <<TxN1(n0)>>, <<TxU1, TxU2>>, <<TxU2, TxU3>>}

\* the block bodies of the admission path: one that changes the chain id
AdmitBodies(n0) == {<<TxN1(n0)>>, <<TxU4>>}

\* the block bodies of the chain handlers' inputs
ChainBodies(n0) == {<<>>, <<TxN1(n0)>>}

\* util::full_to_compact(block).body.tx_hashes
TxHashes(body) == [i \in 1..Len(body) |-> body[i].transaction_hash]

\* KMS answers: verify_tx_hash -> Ok(true) | Ok(false) | Err,
\* verify_tx_signature -> Ok(sender) | Ok(another address) | Err
KmsGood == [verify |-> "true", recover |-> "sender"]
KmsAnswers ==
    {KmsGood,
     [verify |-> "false", recover |-> "sender"],
     [verify |-> "err", recover |-> "sender"],
     [verify |-> "true", recover |-> "other"],
     [verify |-> "true", recover |-> "err"]}

-----------------------------------------------------------------------------
(* Authentication (src/src/auth.rs) *)

Ok(v) == [ok |-> TRUE, val |-> v]
Err(e) == [ok |-> FALSE, val |-> e]

\* the kind of a Result: "Ok" or the error
ResultKind(r) == IF r.ok THEN "Ok" ELSE r.val

\* Authentication::init: the heights backfilled from storage
InitWindow(n) ==
    (IF n >= BLOCKLIMIT THEN n - BLOCKLIMIT + 1 ELSE 1) .. n

\* a faulty insert_tx_hash that evicts but forgets the new block's hashes
InsertHistoryLost(hist, h, hash_list) ==
    IF h >= BLOCKLIMIT THEN MapRemove(hist, h - BLOCKLIMIT) ELSE hist

\* a faulty insert_tx_hash that never evicts
InsertHistoryKeep(hist, h, hash_list) == MapInsert(hist, h, hash_list)

\* Authentication::insert_tx_hash, the history map
InsertHistory(hist, h, hash_list) ==
    LET ins == MapInsert(hist, h, hash_list)
    IN IF h >= BLOCKLIMIT THEN MapRemove(ins, h - BLOCKLIMIT) ELSE ins


\* Authentication::insert_tx_hash, the current block number
InsertCurrent(cur, h) == IF h > cur THEN h ELSE cur

\* Authentication::check_tx_hash
check_tx_hash(hist, tx_hash) ==
    IF \E h \in DOMAIN hist : tx_hash \in Range(hist[h]) THEN Err("dup") ELSE Ok(tx_hash)

\* a faulty window check that lets the finalized height itself through
ValidUntilOutsideInclusive(valid_until_block, cur) ==
    valid_until_block < cur \/ valid_until_block > cur + BLOCKLIMIT

\* check_transaction, line 85: valid_until_block is outside (cur, cur + BLOCKLIMIT]
ValidUntilOutside(valid_until_block, cur) ==
    valid_until_block <= cur \/ valid_until_block > cur + BLOCKLIMIT

\* Authentication::check_transaction
check_transaction(tx, cur) ==
    IF tx.version # 0 THEN Err("Invalid version")
    ELSE IF tx.nonce_len > 128 THEN Err("Invalid nonce")
    ELSE IF ValidUntilOutside(tx.valid_until_block, cur)
         THEN Err("Invalid valid_until_block")
    ELSE IF tx.value_len # 32 THEN Err("Invalid value")
    ELSE IF tx.chain_id # ZeroChainId THEN Err("Invalid chain_id")
    ELSE Ok("checked")

\* Authentication::check_raw_tx, the NormalTx arm
CheckNormal(raw, hist, cur, kms) ==
    IF ~raw.has_witness THEN Err("witness is none")
    ELSE IF ~raw.has_transaction THEN Err("tx is none")
    ELSE IF ~check_transaction(raw, cur).ok THEN check_transaction(raw, cur)
    ELSE IF ~check_tx_hash(hist, raw.transaction_hash).ok
         THEN check_tx_hash(hist, raw.transaction_hash)
    ELSE IF kms.verify = "false" THEN Err("Invalid tx_hash")
    ELSE IF kms.recover = "sender" THEN Ok(raw.transaction_hash)
    ELSE IF kms.recover = "other" THEN Err("Invalid sender")
    ELSE Err("kms recover signature failed")

\* Authentication::check_raw_tx, the UtxoTx arm
CheckUtxo(raw, kms) ==
    IF ~raw.has_transaction THEN Err("utxo tx is none")
    ELSE IF kms.verify = "false" THEN Err("Invalid utxo tx hash")
    ELSE IF raw.witnesses > 0 /\ kms.recover = "other" THEN Err("Invalid sender index")
    ELSE IF raw.witnesses > 0 /\ kms.recover = "err"
         THEN Err("kms recover signature failed index")
    ELSE Ok(raw.transaction_hash)

\* Authentication::check_raw_tx
check_raw_tx(raw, hist, cur, kms) ==
    IF raw.kind = "normal" THEN CheckNormal(raw, hist, cur, kms)
    ELSE IF raw.kind = "utxo" THEN CheckUtxo(raw, kms)
    ELSE Err("Invalid raw tx")

-----------------------------------------------------------------------------
(* SystemConfig: the per-slot chain of utxo transactions (utxo_set) *)

\* SystemConfig as read from init_sys_config.toml: every slot at its genesis
\* head, the chain id the 32 zero bytes of the admission scenario
InitSysConfig ==
    [l \in LockIds |->
        [payload |-> IF l = LOCK_ID_CHAIN_ID THEN ZeroChainId ELSE "genesis",
         head |-> ZeroHash]]

\* SystemConfig::update, the returned bool
UpdateAccepted(cfg, utxo) ==
    utxo.lock_id \in DOMAIN cfg /\ utxo.pre_tx_hash = cfg[utxo.lock_id].head

\* SystemConfig::update, the new configuration
UpdateConfig(cfg, utxo) ==
    IF UpdateAccepted(cfg, utxo)
    THEN [cfg EXCEPT ![utxo.lock_id] =
              [payload |-> utxo.output, head |-> utxo.transaction_hash]]
    ELSE cfg

-----------------------------------------------------------------------------
(* Pool *)

PoolHashes(p) == {p[i].transaction_hash : i \in DOMAIN p}

\* Pool::enqueue, the returned bool
EnqueueOk(p, raw, tx_hash) == tx_hash \notin PoolHashes(p) /\ Len(p) < PoolCapacity

\* Pool::enqueue
Enqueue(p, raw, tx_hash) == IF EnqueueOk(p, raw, tx_hash) THEN Append(p, raw) ELSE p

\* a pool at its capacity: what PoolCapacity admissions leave
FilledPool(n0) ==
    [i \in 1..PoolCapacity |-> NormalTx("filler-" \o ToString(i), n0 + 2)]

\* Pool::package: the entries still valid at next_height, in insertion order
RECURSIVE Package(_, _)
Package(p, next_height) ==
    IF p = <<>> THEN <<>>
    ELSE IF Head(p).kind = "normal" /\ Head(p).valid_until_block <= next_height
         THEN Package(Tail(p), next_height)
         ELSE <<Head(p)>> \o Package(Tail(p), next_height)

\* Pool::update
PoolUpdate(p, hashes) ==
    LET Stays(raw) == raw.transaction_hash \notin hashes
    IN SelectSeq(p, Stays)

-----------------------------------------------------------------------------
(* Blocks *)

NoProof == <<>>
SomeProof == <<"proof">>

\* util::hash_data over the concatenated tx hashes
TransactionsRoot(body) == <<"root", TxHashes(body)>>

\* BlockHeader; timestamp and proposer do not enter any decision and are left out
Header(prev, height, body) ==
    [prevhash |-> prev, height |-> height, transactions_root |-> TransactionsRoot(body)]

\* Block { header: None, .. }
NoHeader == [none |-> TRUE]

MkBlock(prev, height, body, proof) ==
    [header |-> Header(prev, height, body), body |-> body, proof |-> proof]

\* util::get_block_hash: the hash of the encoded header
get_block_hash(header) ==
    <<"hash", header.prevhash, header.height, header.transactions_root>>

\* the hash of the block the stored chain ends with
StoredHeadHash(n) == <<"hash", <<>>, n, <<"root", <<"stored">>>>>>

\* the tx hashes of the blocks an earlier run finalized and stored: the chain
\* was fed by commit_block, which never inspects a block's transactions
StoredBody(n0, h) == IF h = 1 THEN <<TxN1(n0).transaction_hash>> ELSE <<>>

-----------------------------------------------------------------------------
(* Chain::finalize_block (src/src/chain.rs) *)

StoreEv(region, key, value) ==
    [ev |-> "store", region |-> region, key |-> key, value |-> value]

\* a faulty finalize_block that writes region 0 and reconfigures whatever
\* update_system_config returned
UtxoEventsAlways(accepted, lock_id, call, store, reconf) ==
    IF lock_id \in {LOCK_ID_VALIDATORS, LOCK_ID_BLOCK_INTERVAL}
    THEN <<call, store, reconf>>
    ELSE <<call, store>>

\* a faulty finalize_block that reconfigures the consensus for every accepted update
UtxoEventsReconfAll(accepted, lock_id, call, store, reconf) ==
    IF ~accepted THEN <<call>> ELSE <<call, store, reconf>>

\* finalize_block, lines 410-434: what one utxo transaction issues after the call
\* of update_system_config: the region-0 write and the reconfigure only if the
\* update was accepted
UtxoEvents(accepted, lock_id, call, store, reconf) ==
    IF ~accepted THEN <<call>>
    ELSE IF lock_id \in {LOCK_ID_VALIDATORS, LOCK_ID_BLOCK_INTERVAL}
         THEN <<call, store, reconf>>
         ELSE <<call, store>>

\* finalize_block, lines 408-436: the utxo transactions of the body, in order
RECURSIVE UtxoLoop(_, _, _, _)
UtxoLoop(cfg, body, block_height, events) ==
    IF body = <<>> THEN [cfg |-> cfg, events |-> events]
    ELSE
        LET raw == Head(body)
        IN IF raw.kind # "utxo" THEN UtxoLoop(cfg, Tail(body), block_height, events)
           ELSE
             LET accepted == UpdateAccepted(cfg, raw)
                 cfg2 == UpdateConfig(cfg, raw)
                 call == [ev |-> "update_system_config", tx |-> raw.transaction_hash,
                          lock_id |-> raw.lock_id, pre_tx_hash |-> raw.pre_tx_hash,
                          head_before |-> cfg[raw.lock_id].head,
                          head_after |-> cfg2[raw.lock_id].head,
                          payload_before |-> cfg[raw.lock_id].payload,
                          payload_after |-> cfg2[raw.lock_id].payload,
                          accepted |-> accepted]
                 store == StoreEv(0, raw.lock_id, raw.transaction_hash)
                 reconf == [ev |-> "reconfigure", height |-> block_height,
                            block_interval |-> cfg2[LOCK_ID_BLOCK_INTERVAL].payload,
                            validators |-> cfg2[LOCK_ID_VALIDATORS].payload]
                 evs == UtxoEvents(accepted, raw.lock_id, call, store, reconf)
             IN UtxoLoop(cfg2, Tail(body), block_height, events \o evs)

\* finalize_block, lines 380-406: region 1 and the tx index, one task per transaction
TxStoreEvents(body, block_height) ==
    [i \in 1..Len(body) |->
        [ev |-> "write_tx", tx |-> body[i].transaction_hash,
         height |-> block_height, index |-> i - 1]]

\* a faulty finalize_block that updates the pool before the history window
FinalizeTailPoolFirst(block_height, tx_hash_list, bhash) ==
    <<[ev |-> "exec_block", height |-> block_height],
      StoreEv(6, block_height, "executed"),
      [ev |-> "pool_update", hashes |-> tx_hash_list],
      [ev |-> "insert_tx_hash", height |-> block_height],
      StoreEv(0, "0", block_height),
      StoreEv(0, "1", bhash)>>

\* finalize_block, lines 438-468: exec_block and the region-6 write, the history
\* window, the pool, and the region-0 writes of the height (key 0) and the hash
\* (key 1); the keys of region 0 are named as the lock ids are
FinalizeTail(block_height, tx_hash_list, bhash) ==
    <<[ev |-> "exec_block", height |-> block_height],
      StoreEv(6, block_height, "executed"),
      [ev |-> "insert_tx_hash", height |-> block_height],
      [ev |-> "pool_update", hashes |-> tx_hash_list],
      StoreEv(0, "0", block_height),
      StoreEv(0, "1", bhash)>>

\* the head each accepted update_system_config of the events wrote to region 0
RECURSIVE StoreHeads(_, _)
StoreHeads(global, events) ==
    IF events = <<>> THEN global
    ELSE LET e == Head(events)
         IN IF e.ev = "update_system_config" /\ e.accepted
            THEN StoreHeads(MapInsert(global, e.lock_id, e.tx), Tail(events))
            ELSE StoreHeads(global, Tail(events))

\* finalize_block, lines 380-406: write_tx, the region-1 record of each transaction
StoreTxs(txs, body) ==
    [h \in (DOMAIN txs) \cup Range(TxHashes(body)) |->
        IF \E i \in DOMAIN body : body[i].transaction_hash = h
        THEN body[CHOOSE i \in DOMAIN body : body[i].transaction_hash = h]
        ELSE txs[h]]

\* finalize_block: st is the state it reads and writes (history, current, cfg,
\* pool, fin, stored) with the events issued so far
finalize_block(st, full_block, bhash) ==
    LET block_height == full_block.header.height
        tx_hash_list == TxHashes(full_block.body)
        head == <<StoreEv(4, block_height, bhash), StoreEv(8, bhash, block_height)>>
        archive == IF block_height \notin DOMAIN st.fin
                   THEN <<[ev |-> "write_block", height |-> block_height,
                           proof |-> full_block.proof]>>
                   ELSE <<>>
        txs == TxStoreEvents(full_block.body, block_height)
        utxo == UtxoLoop(st.cfg, full_block.body, block_height,
                         st.events \o head \o archive \o txs)
        tail == FinalizeTail(block_height, tx_hash_list, bhash)
        own == UtxoLoop(st.cfg, full_block.body, block_height, <<>>).events
    IN [history |-> InsertHistory(st.history, block_height, tx_hash_list),
        current |-> InsertCurrent(st.current, block_height),
        cfg |-> utxo.cfg,
        pool |-> PoolUpdate(st.pool, Range(tx_hash_list)),
        fin |-> MapInsert(st.fin, block_height, tx_hash_list),
        stored |-> [height |-> block_height, hash |-> bhash,
                    global |-> StoreHeads(st.stored.global, own),
                    txs |-> StoreTxs(st.stored.txs, full_block.body),
                    region4 |-> MapInsert(st.stored.region4, block_height, bhash),
                    region6 |-> st.stored.region6 \cup {block_height},
                    region8 |-> MapInsert(st.stored.region8, bhash, block_height)],
        events |-> utxo.events \o tail]

\* the state finalize_block works on, before any event
FinState == [history |-> history_hashes, current |-> current_block_number,
             cfg |-> sys_config, pool |-> pool, fin |-> finalized, stored |-> stored,
             events |-> <<>>]

-----------------------------------------------------------------------------
(* Chain (src/src/chain.rs) *)

NoCandidate == <<>>

\* Chain::new: the fork tree, one map per pushed level (for _ in 0..=fork_tree_size)
NewForkTree(delay) == [i \in 1..((delay * 2 + 2) + 1) |-> EmptyMap]

\* the size commit_block resizes the fork tree to
ForkTreeSize(delay) == delay * 2 + 2

\* a faulty split that keeps the finalized prefix in the chain
SplitOffNone(s, n) == s

\* Vec::split_off(n): the tail that is split off
SplitOff(s, n) == SubSeq(s, n + 1, Len(s))

\* Vec::split_off(n) followed by Vec::resize(size, HashMap::new())
SplitOffResize(ft, n, size) ==
    [i \in 1..size |-> IF n + i <= Len(ft) THEN ft[n + i] ELSE EmptyMap]

RECURSIVE SumLevels(_, _)
SumLevels(ft, i) ==
    IF i > Len(ft) THEN 0 ELSE Cardinality(DOMAIN ft[i]) + SumLevels(ft, i + 1)

\* the number of blocks the fork tree holds
ForkCount == SumLevels(fork_tree, 1)

\* a faulty next_step that forces the sync only above the distance FORCE_IN_SYNC
next_stepStrict(global_height) ==
    IF global_height > block_number
       /\ (DOMAIN fork_tree[1] = {} \/ global_height > block_number + FORCE_IN_SYNC)
    THEN "SyncStep" ELSE "OnlineStep"

\* Chain::next_step
next_step(global_height) ==
    IF global_height > block_number
       /\ (DOMAIN fork_tree[1] = {} \/ global_height >= block_number + FORCE_IN_SYNC)
    THEN "SyncStep" ELSE "OnlineStep"

\* a faulty check_dup_tx that finds no transaction in the main chain
check_dup_txNever(tx_hash) == FALSE

\* Chain::check_dup_tx
check_dup_tx(tx_hash) == tx_hash \in Range(main_chain_tx_hash)

\* a faulty upper bound that turns away the fork tree's top level
RemoteTooHighInclusive(block_height) ==
    block_height - block_number >= block_delay_number * 2 + 2

\* add_remote_proposal, line 190: the block is above the fork tree
RemoteTooHigh(block_height) ==
    block_height - block_number > block_delay_number * 2 + 2

\* Chain::add_remote_proposal: the result; header.clone().unwrap() panics on a
\* block without header
add_remote_proposal(hash, block) ==
    LET block_height == block.header.height
    IN IF block.header = NoHeader THEN Err("panic")
       ELSE IF block_height <= block_number THEN Err("ProposalTooLow")
       ELSE IF RemoteTooHigh(block_height) THEN Err("ProposalTooHigh")
       ELSE IF hash \notin DOMAIN fork_tree[(block_height - block_number - 1) + 1]
            THEN Ok(TRUE)
       ELSE Ok(FALSE)

\* commit_block, lines 513-544: trace the candidate chain back from level `index`
\* (0-based) through the levels below it
RECURSIVE TraceChain(_, _, _, _, _, _)
TraceChain(ft, index, i, prev_hash, chain, txs) ==
    IF i >= index THEN [err |-> "none", prev_hash |-> prev_hash, chain |-> chain, txs |-> txs]
    ELSE
        LET map == ft[(index - i - 1) + 1]
        IN IF prev_hash \in DOMAIN map
           THEN LET prev_full_block == map[prev_hash]
                IN IF prev_full_block.proof = NoProof
                   THEN [err |-> "CandidateChainHasNoProof", prev_hash |-> prev_hash,
                         chain |-> chain, txs |-> txs]
                   ELSE IF \E h \in Range(TxHashes(prev_full_block.body)) : h \in Range(txs)
                   THEN [err |-> "CandidateChainHasDupTx", prev_hash |-> prev_hash,
                         chain |-> Append(chain, prev_hash), txs |-> txs]
                   ELSE TraceChain(ft, index, i + 1, prev_full_block.header.prevhash,
                                   Append(chain, prev_hash),
                                   txs \o TxHashes(prev_full_block.body))
           ELSE [err |-> "CandidateChainInterrupted", prev_hash |-> prev_hash,
                 chain |-> chain, txs |-> txs]

\* a faulty commit_block that finalizes the block under the hash of its parent
FinalizePrefixParent(st, prefix, full_block) ==
    finalize_block(st, full_block, full_block.header.prevhash)

\* commit_block, lines 570-579: finalize_block once per hash of the finalized
\* prefix, each time with the committed block (let block = full_block.clone())
RECURSIVE FinalizePrefix(_, _, _)
FinalizePrefix(st, prefix, full_block) ==
    IF prefix = <<>> THEN st
    ELSE FinalizePrefix(finalize_block(st, full_block, Head(prefix)), Tail(prefix),
                        full_block)

\* commit_block, lines 576-578: the tx hashes collected while finalizing the prefix
RECURSIVE FinalizedTxHashes(_, _)
FinalizedTxHashes(prefix, full_block) ==
    IF prefix = <<>> THEN <<>>
    ELSE TxHashes(full_block.body) \o FinalizedTxHashes(Tail(prefix), full_block)

\* what a handler leaves of the chain when it changes nothing
SameChain(result, st) ==
    [result |-> result, block_number |-> block_number, block_hash |-> block_hash,
     fork_tree |-> fork_tree, main_chain |-> main_chain,
     main_chain_tx_hash |-> main_chain_tx_hash, candidate_block |-> candidate_block,
     st |-> st]

\* the (ConsensusConfiguration, ChainStatus) pair commit_block and process_block return
Status(height, hash, cfg) ==
    Ok([height |-> height, hash |-> hash,
        validators |-> cfg[LOCK_ID_VALIDATORS].payload,
        block_interval |-> cfg[LOCK_ID_BLOCK_INTERVAL].payload])

\* a faulty finalization that leaves block_number where it was
AdvanceBlockNumberNot(number, finalized_blocks_number) == number

\* commit_block, line 580: self.block_number += finalized_blocks_number
AdvanceBlockNumber(number, finalized_blocks_number) == number + finalized_blocks_number

\* commit_block, lines 556-632: the fork choice once the candidate chain fits
ForkChoice(height, full_block, candidate_chain, candidate_chain_tx_hash) ==
    IF Len(candidate_chain) > Len(main_chain)
    THEN
        LET replaced == Reverse(candidate_chain)
            delay == block_delay_number
        IN IF Len(replaced) > delay
           THEN
             LET finalized_blocks_number == Len(replaced) - delay
                 prefix == SubSeq(replaced, 1, finalized_blocks_number)
                 new_main_chain == SplitOff(replaced, finalized_blocks_number)
                 st == FinalizePrefix(FinState, prefix, full_block)
                 finalized_tx_hash_list == FinalizedTxHashes(prefix, full_block)
                 new_hash == prefix[finalized_blocks_number]
             IN [result |-> Status(height, new_hash, st.cfg),
                 block_number |-> AdvanceBlockNumber(block_number, finalized_blocks_number),
                 block_hash |-> new_hash,
                 fork_tree |-> SplitOffResize(fork_tree, finalized_blocks_number,
                                              ForkTreeSize(delay)),
                 main_chain |-> new_main_chain,
                 main_chain_tx_hash |->
                     SeqFilterOut(candidate_chain_tx_hash, Range(finalized_tx_hash_list)),
                 candidate_block |-> NoCandidate,
                 st |-> st]
           ELSE [result |-> Status(height, block_hash, sys_config),
                 block_number |-> block_number, block_hash |-> block_hash,
                 fork_tree |-> fork_tree, main_chain |-> replaced,
                 main_chain_tx_hash |-> candidate_chain_tx_hash,
                 candidate_block |-> NoCandidate, st |-> FinState]
    ELSE SameChain(Err("NoForkTree"), FinState)

\* commit_block, lines 549-550: break the chain that does not fit
BreakChain(ft, blk_hash) == [ft EXCEPT ![1] = MapRemove(ft[1], blk_hash)]

\* commit_block, lines 498-635: the body of the loop over the fork tree's levels
\* at level `index` (0-based); every path through it leaves the loop
CommitAtLevel(index, height, block, proof) ==
    LET full_block == [block EXCEPT !.proof = proof]
        own_hash == get_block_hash(full_block.header)
        t == TraceChain(fork_tree, index, 0, full_block.header.prevhash,
                        <<own_hash>>, TxHashes(full_block.body))
    IN IF t.err # "none" THEN SameChain(Err(t.err), FinState)
       ELSE IF t.prev_hash # block_hash
       THEN [SameChain(Err("CandidateChainDoesNotFit"), FinState) EXCEPT
                !.fork_tree = BreakChain(fork_tree, t.chain[Len(t.chain)])]
       ELSE ForkChoice(height, full_block, t.chain, t.txs)

\* commit_block, lines 498-500: the level at which the loop body runs for a
\* proposal that carries a block: the first one the enumeration yields
CommitLevel(block) == 0

\* a faulty lower bound that lets the finalized height through
CommitTooLowStrict(height) == height < block_number

\* commit_block, line 482
CommitTooLow(height) == height <= block_number

\* Chain::commit_block
commit_block(height, proposal, proof) ==
    IF CommitTooLow(height) THEN SameChain(Err("ProposalTooLow"), FinState)
    ELSE IF height > block_number + block_delay_number + 1
         THEN SameChain(Err("ProposalTooHigh"), FinState)
    ELSE IF proposal.kind = "garbage" THEN SameChain(Err("DecodeError"), FinState)
    ELSE IF proposal.kind = "none" THEN SameChain(Err("NoneProposal"), FinState)
    ELSE IF ~proposal.has_block THEN SameChain(Err("NoForkTree"), FinState)
    ELSE CommitAtLevel(CommitLevel(proposal.block), height, proposal.block, proof)

\* Chain::check_transactions
RECURSIVE check_transactions(_, _)
check_transactions(body, kms) ==
    IF body = <<>> THEN Ok("unit")
    ELSE LET checked == check_raw_tx(Head(body), history_hashes, current_block_number, kms)
         IN IF ~checked.ok THEN checked
            ELSE IF check_dup_tx(checked.val) THEN Err("DupTransaction")
            ELSE check_transactions(Tail(body), kms)

\* Chain::extract_proposal_info as assemble_proposal sees it: pre_h = h - delay - 1
\* is computed in u64; below zero the subtraction panics when overflow checks are
\* compiled in, and otherwise wraps to a height storage holds nothing for
assemble_proposal(h, env) ==
    IF h < block_delay_number + 1
    THEN (IF env.overflow_checks THEN Err("panic") ELSE Err("NoEarlyStatus"))
    ELSE IF ~env.early THEN Err("NoEarlyStatus")
    ELSE Ok("proposal_bytes")

\* Chain::get_proposal
get_proposal(env) ==
    IF candidate_block = NoCandidate THEN Err("NoCandidate")
    ELSE assemble_proposal(candidate_block[1], env)

\* load_data(6, pre_h): the executed block hash finalize_block wrote to region 6
StoredStateRoot == "executed"

\* Chain::check_proposal: the proof of the stored block is SomeProof; pre_h = h - delay - 1 is computed in u64; below zero it
\* panics or wraps to a height storage holds nothing for, and the results of
\* load_data and get_compact_block are unwrapped
check_proposal(h, proposal, env) ==
    IF h <= block_number THEN Err("ProposalTooLow")
    ELSE IF h > block_number + block_delay_number + 1 THEN Err("ProposalTooHigh")
    ELSE IF proposal.kind = "none" THEN Err("NoneProposal")
    ELSE IF h < block_delay_number + 1 THEN Err("panic")
    ELSE IF ~env.early THEN Err("panic")
    ELSE IF proposal.pre_state_root = StoredStateRoot /\ proposal.pre_proof = SomeProof
         THEN Ok(TRUE)
    ELSE Err("ProposalCheckError")

\* Chain::process_block
process_block(block, env) ==
    LET hash == get_block_hash(block.header)
        height == block.header.height
    IN IF height <= block_number THEN SameChain(Err("ProposalTooLow"), FinState)
       ELSE IF height > block_number + block_delay_number + 1
            THEN SameChain(Err("ProposalTooHigh"), FinState)
       ELSE IF block.header.prevhash # block_hash
            THEN SameChain(Err("BlockCheckError"), FinState)
       ELSE IF ~assemble_proposal(height, env).ok
            THEN SameChain(assemble_proposal(height, env), FinState)
       ELSE IF env.check_block = "err" THEN SameChain(Err("InternalError"), FinState)
       ELSE IF env.check_block = "false"
            THEN SameChain(Err("ConsensusProposalCheckError"), FinState)
       ELSE IF ~check_transactions(block.body, env.kms).ok
            THEN SameChain(check_transactions(block.body, env.kms), FinState)
       ELSE LET st == finalize_block(FinState, block, hash)
            IN [SameChain(Status(height, hash, st.cfg), st)
                EXCEPT !.block_number = height, !.block_hash = hash]

-----------------------------------------------------------------------------
(* Inputs *)

\* a prevhash no block has
BogusBlockHash == <<"hash", <<>>, 0, <<"root", <<"bogus">>>>>>

BlockInputs(prevs, heights, bodies, proofs) ==
    {MkBlock(p, h, b, pf) : p \in prevs, h \in heights, b \in bodies, pf \in proofs}

\* add_remote_proposal: blocks for the lowest level on and off the finalized
\* head, with and without a proof, and one block each at the next level, at the
\* top level, below and above the tree
RemoteInputs(bodies) ==
    BlockInputs({block_hash}, {block_number + 1}, bodies, {SomeProof})
    \cup BlockInputs({block_hash}, {block_number + 1}, {<<>>}, {NoProof})
    \cup BlockInputs({BogusBlockHash},
                     {block_number, block_number + 1, block_number + 2,
                      block_number + 2 * block_delay_number + 2,
                      block_number + 2 * block_delay_number + 3},
                     {<<>>}, {SomeProof})

\* the hashes the consensus can name as the prevhash of a committed block
PrevChoices ==
    {block_hash, BogusBlockHash} \cup Range(main_chain) \cup DOMAIN fork_tree[1]

\* commit_block: every malformed proposal at the next height; at each height
\* the bounds check admits, every block of that height; one block on the
\* finalized head whose header names the height after the next; one proposal
\* below and one above the bounds; and again every (height, proposal) that was
\* committed before
CommitInputs(bodies) ==
    {[height |-> block_number + 1, proposal |-> p] :
        p \in {[kind |-> "garbage"], [kind |-> "none"],
               [kind |-> "bft", has_block |-> FALSE]}}
    \cup {[height |-> b.header.height,
           proposal |-> [kind |-> "bft", has_block |-> TRUE, block |-> b]] :
            b \in BlockInputs(PrevChoices,
                              {block_number + 1, block_number + block_delay_number + 1},
                              bodies, {NoProof})}
    \cup {[height |-> block_number + 1,
           proposal |-> [kind |-> "bft", has_block |-> TRUE,
                         block |-> MkBlock(block_hash, block_number + 2, <<>>, NoProof)]]}
    \cup {[height |-> h, proposal |-> [kind |-> "none"]] :
            h \in {block_number, block_number + block_delay_number + 2}}
    \cup committed

\* what the services answer during process_block
EnvGood == [early |-> TRUE, overflow_checks |-> FALSE, check_block |-> "true",
            kms |-> KmsGood]

ProcessEnvs ==
    {EnvGood,
     [EnvGood EXCEPT !.early = FALSE],
     [EnvGood EXCEPT !.overflow_checks = TRUE],
     [EnvGood EXCEPT !.check_block = "false"],
     [EnvGood EXCEPT !.check_block = "err"],
     [EnvGood EXCEPT !.kms = [verify |-> "false", recover |-> "sender"]]}

\* the consensus turns the block down and the KMS its transaction
EnvWorst == [EnvGood EXCEPT !.check_block = "false",
                            !.kms = [verify |-> "false", recover |-> "sender"]]

\* process_block: blocks on the finalized head while the services answer well,
\* one of them under each of the answers envs, and one block each off the head,
\* below and above the heights admitted
ProcessInputs(bodies, envs) ==
    {[block |-> b, env |-> EnvGood] :
        b \in BlockInputs({block_hash},
                          {block_number + 1, block_number + block_delay_number + 1},
                          bodies, {SomeProof})}
    \cup {[block |-> MkBlock(block_hash, block_number + 1, b, SomeProof), env |-> e] :
            b \in bodies \cap {<<TxN1(init_block_number)>>}, e \in envs}
    \cup {[block |-> b, env |-> EnvGood] :
            b \in BlockInputs({BogusBlockHash},
                              {block_number, block_number + 1,
                               block_number + block_delay_number + 2},
                              {<<>>}, {SomeProof})}

\* process_block where more than one check fails: the block with n1 on and off
\* the finalized head while the consensus, the KMS or both turn it down
OrderInputs ==
    {[block |-> MkBlock(p, block_number + 1, <<TxN1(init_block_number)>>, SomeProof),
      env |-> e] :
        p \in {block_hash, BogusBlockHash},
        e \in {[EnvGood EXCEPT !.check_block = "false"],
               [EnvGood EXCEPT !.kms = EnvWorst.kms], EnvWorst}}

\* send_raw_transaction: every KMS answer for the transactions that reach the KMS
SendInputsOf(raws) ==
    {[raw |-> r, kms |-> k] : r \in raws, k \in KmsAnswers} \
    {[raw |-> r, kms |-> k] :
        r \in {x \in raws :
                 ~check_raw_tx(x, history_hashes, current_block_number, KmsGood).ok},
        k \in KmsAnswers \ {KmsGood}}

SendInputs == SendInputsOf(RawTxInputs(init_block_number))

AdmitInputs == SendInputsOf(AdmitTxs(init_block_number))

\* the message types process_network_msg has an arm for
KnownTypes == {"raw_tx", "block"}

\* process_network_msg: a transaction of a peer, bytes that decode to nothing, a
\* block without body, a block with a transaction the pool does not hold, and
\* messages of the other types peers send
NetworkMsgs ==
    {[type |-> "raw_tx", decodes |-> TRUE, raw |-> r, kms |-> KmsGood] :
        r \in {TxN1(init_block_number), TxU1, NoneTx}}
    \cup {[type |-> t, decodes |-> FALSE] : t \in KnownTypes}
    \cup {[type |-> "block", decodes |-> TRUE, has_body |-> FALSE],
          [type |-> "block", decodes |-> TRUE, has_body |-> TRUE, tx_hashes |-> {"absent"}]}
    \cup {[type |-> t] : t \in {"proposal", "chain_status", "unknown"}}

\* add_proposal: the heights of the global status
GlobalHeights ==
    {block_number, block_number + 1, block_number + FORCE_IN_SYNC - 1,
     block_number + FORCE_IN_SYNC}

\* a handler runs while the process is up; one that finalizes a block only
\* below the bound on the chain's growth
CanRun(finalizes) ==
    ~crashed /\ (finalizes => block_number < init_block_number + MaxAdvance)

\* a handler that adds a block to the fork tree runs only below the bound on its size
CanGrow(grows) == ~crashed /\ (grows => ForkCount < MaxForkBlocks)

-----------------------------------------------------------------------------
(* Tasks and the reader-writer locks around Chain, Authentication and Pool *)

Tasks == 1..MaxTasks

\* Arc<RwLock<Chain>>, Arc<RwLock<Authentication>>, Arc<RwLock<Pool>>
Locks == {"chain", "auth", "pool"}

\* the steps of a task that matter to the locks: taking a guard, dropping it,
\* and awaiting a call of another service
Acq(lock, mode) == [k |-> "acq", lock |-> lock, mode |-> mode]
Rel(lock) == [k |-> "rel", lock |-> lock, mode |-> "-"]
Call(service) == [k |-> "call", lock |-> service, mode |-> "-"]

\* finalize_block: per utxo transaction the update under the write guard, the
\* region-0 write, the read of the configuration and the reconfigure call; then
\* exec_block, insert_tx_hash, Pool::update and the join of the spawned stores
FinalizeSteps ==
    <<Acq("auth", "w"), Rel("auth"), Call("storage"),
      Acq("auth", "r"), Rel("auth"), Call("consensus"),
      Call("executor"),
      Acq("auth", "w"), Rel("auth"),
      Acq("pool", "w"), Rel("pool"),
      Call("storage")>>

\* Chain::get_system_config
GetSystemConfigSteps == <<Acq("auth", "r"), Rel("auth")>>

\* Controller::rpc_get_block_number
GetBlockNumberSteps == <<Acq("chain", "r"), Rel("chain")>>

\* Controller::rpc_send_raw_transaction: check_raw_tx under the read guard of
\* Authentication, enqueue and broadcast under the write guard of Pool
SendRawTransactionSteps ==
    <<Acq("auth", "r"), Call("kms"), Call("kms"), Rel("auth"),
      Acq("pool", "w"), Call("network"), Rel("pool")>>

\* a faulty "block" arm that keeps the guard of Pool while it waits for Chain
NetworkBlockStepsHolding ==
    <<Acq("pool", "r"), Acq("chain", "w"), Rel("chain"), Rel("pool")>>

\* Controller::process_network_msg, the "block" arm
NetworkBlockSteps ==
    <<Acq("pool", "r"), Rel("pool"), Acq("chain", "w"), Rel("chain")>>

\* Controller::chain_get_proposal with Chain::get_proposal
GetProposalSteps ==
    <<Acq("chain", "r"), Call("storage"), Call("storage"), Rel("chain")>>

\* Controller::chain_check_proposal with Chain::check_proposal
CheckProposalSteps ==
    <<Acq("chain", "r"), Call("storage"), Call("storage"), Rel("chain")>>

\* Controller::chain_commit_block with Chain::commit_block finalizing a block
CommitBlockSteps ==
    <<Acq("chain", "w")>> \o FinalizeSteps \o GetSystemConfigSteps \o <<Rel("chain")>>

\* Chain::process_block under the write guard of its caller
ProcessBlockSteps ==
    <<Acq("chain", "w"), Call("storage"), Call("storage"), Call("consensus"),
      Acq("auth", "r"), Call("kms"), Call("kms"), Rel("auth")>>
    \o FinalizeSteps \o GetSystemConfigSteps \o <<Rel("chain")>>

Operations ==
    {"get_block_number", "send_raw_transaction", "process_network_msg", "get_proposal",
     "check_proposal", "commit_block", "process_block"}

Program(op) ==
    CASE op = "get_block_number" -> GetBlockNumberSteps
      [] op = "send_raw_transaction" -> SendRawTransactionSteps
      [] op = "process_network_msg" -> NetworkBlockSteps
      [] op = "get_proposal" -> GetProposalSteps
      [] op = "check_proposal" -> CheckProposalSteps
      [] op = "commit_block" -> CommitBlockSteps
      [] op = "process_block" -> ProcessBlockSteps

IdleTask == [op |-> "idle", pc |-> 0, waiting |-> FALSE]

\* RwLock::new
FreeLock == [holders |-> {}, queue |-> <<>>]

Busy(t) == tasks[t].op # "idle"

\* the step a busy task is at
StepOf(t) == Program(tasks[t].op)[tasks[t].pc]

At(t, kind) ==
    Busy(t) /\ tasks[t].pc <= Len(Program(tasks[t].op)) /\ StepOf(t).k = kind

\* the locks a task holds a guard of
Held(t) == {l \in Locks : \E h \in locks[l].holders : h.task = t}

\* RwLock: any number of read guards or one write guard
Compatible(l, mode) ==
    IF mode = "w" THEN locks[l].holders = {}
    ELSE \A h \in locks[l].holders : h.mode = "r"

Advance(t) == tasks' = [tasks EXCEPT ![t].pc = @ + 1, ![t].waiting = FALSE]

dataVars ==
    <<confVars, chainVars, authVars, pool, finalized, committed, crashed, last, stored,
      in_flight>>

\* a request arrives and its handler starts
Start(t, op) ==
    /\ ~Busy(t)
    /\ tasks' = [tasks EXCEPT ![t] = [op |-> op, pc |-> 1, waiting |-> FALSE]]
    /\ UNCHANGED <<locks, dataVars>>

\* read().await / write().await returns at once: the lock is free for the mode
\* and no task waits for it
Acquire(t) ==
    /\ At(t, "acq") /\ ~tasks[t].waiting
    /\ LET s == StepOf(t)
       IN /\ locks[s.lock].queue = <<>>
          /\ Compatible(s.lock, s.mode)
          /\ locks' = [locks EXCEPT ![s.lock].holders =
                                      @ \cup {[task |-> t, mode |-> s.mode]}]
    /\ Advance(t)
    /\ UNCHANGED dataVars

\* read().await / write().await suspends: the task joins the lock's queue
QueueUp(t) ==
    /\ At(t, "acq") /\ ~tasks[t].waiting
    /\ LET s == StepOf(t)
       IN /\ locks[s.lock].queue # <<>> \/ ~Compatible(s.lock, s.mode)
          /\ locks' = [locks EXCEPT ![s.lock].queue = Append(@, t)]
    /\ tasks' = [tasks EXCEPT ![t].waiting = TRUE]
    /\ UNCHANGED dataVars

\* the task at the head of the queue gets its guard
Grant(t) ==
    /\ At(t, "acq") /\ tasks[t].waiting
    /\ LET s == StepOf(t)
       IN /\ Head(locks[s.lock].queue) = t
          /\ Compatible(s.lock, s.mode)
          /\ locks' = [locks EXCEPT
                          ![s.lock].holders = @ \cup {[task |-> t, mode |-> s.mode]},
                          ![s.lock].queue = Tail(@)]
    /\ Advance(t)
    /\ UNCHANGED dataVars

\* a guard goes out of scope
Release(t) ==
    /\ At(t, "rel")
    /\ locks' = [locks EXCEPT ![StepOf(t).lock].holders =
                                {h \in @ : h.task # t}]
    /\ Advance(t)
    /\ UNCHANGED dataVars

\* the call of another service the task is suspended on returns
Return(t) ==
    /\ At(t, "call")
    /\ Advance(t)
    /\ UNCHANGED <<locks, dataVars>>

\* the handler returns
Finish(t) ==
    /\ Busy(t) /\ tasks[t].pc > Len(Program(tasks[t].op))
    /\ tasks' = [tasks EXCEPT ![t] = IdleTask]
    /\ UNCHANGED <<locks, dataVars>>

-----------------------------------------------------------------------------
(* Initial state: Controller::new, Chain::init, Authentication::init *)

InitState(pool0) ==
    /\ init_block_number \in {0, BLOCKLIMIT}
    /\ block_delay_number \in 0..MaxDelay
    /\ block_number = init_block_number
    /\ block_hash = StoredHeadHash(init_block_number)
    /\ fork_tree = NewForkTree(block_delay_number)
    /\ main_chain = <<>>
    /\ main_chain_tx_hash = <<>>
    /\ candidate_block = NoCandidate
    /\ history_hashes =
         IF init_block_number = 0 THEN [h \in {0} |-> <<>>]
         ELSE [h \in InitWindow(init_block_number) |-> StoredBody(init_block_number, h)]
    /\ current_block_number = init_block_number
    /\ sys_config = InitSysConfig
    /\ pool = pool0
    /\ finalized = [h \in 0..init_block_number |->
                       IF h = 0 THEN <<>> ELSE StoredBody(init_block_number, h)]
    /\ committed = {}
    /\ crashed = FALSE
    /\ last = [op |-> "init", result |-> "Ok"]
    /\ tasks = [t \in Tasks |-> IdleTask]
    /\ locks = [l \in Locks |-> FreeLock]
    /\ in_flight = {}
    /\ stored = [height |-> init_block_number, hash |-> block_hash,
                 global |-> EmptyMap, txs |-> EmptyMap,
                 region4 |-> MapInsert(EmptyMap, init_block_number, block_hash),
                 region6 |-> {init_block_number},
                 region8 |-> MapInsert(EmptyMap, block_hash, init_block_number)]

\* Controller::new: Pool::new(500), empty
Init == InitState(<<>>)

-----------------------------------------------------------------------------
(* Handlers *)

\* a faulty handler that broadcasts whatever enqueue returned
BroadcastsAlways(is_ok) == 1

\* rpc_send_raw_transaction, lines 111-122: the network messages broadcast
Broadcasts(is_ok) == IF is_ok THEN 1 ELSE 0

\* Controller::rpc_send_raw_transaction, called by the handler `op`
RawTransactionStep(op, raw, kms) ==
    /\ ~crashed
    /\ LET checked == check_raw_tx(raw, history_hashes, current_block_number, kms)
           is_ok == checked.ok /\ EnqueueOk(pool, raw, checked.val)
       IN /\ pool' = IF checked.ok THEN Enqueue(pool, raw, checked.val) ELSE pool
          /\ last' = [op |-> op, kind |-> raw.kind,
                      checked |-> ResultKind(checked),
                      broadcasts |-> Broadcasts(is_ok),
                      returned |-> IF is_ok THEN checked.val ELSE "Err",
                      result |-> IF ~checked.ok THEN checked.val
                                 ELSE IF is_ok THEN "Ok" ELSE "dup"]
    /\ UNCHANGED <<confVars, chainVars, authVars, finalized, committed, crashed, lockVars, stored>>

\* rpc_send_raw_transaction, lines 104-107: check_raw_tx under the read guard of
\* Authentication; the guard is dropped before the guard of Pool is taken
CheckRawTxStep(raw, kms) ==
    /\ ~crashed
    /\ LET checked == check_raw_tx(raw, history_hashes, current_block_number, kms)
           call == [raw |-> raw, tx_hash |-> checked.val]
       IN /\ call \notin in_flight
          /\ in_flight' = IF checked.ok THEN in_flight \cup {call} ELSE in_flight
          /\ last' = [op |-> "check_raw_tx", result |-> ResultKind(checked)]
    /\ UNCHANGED <<confVars, chainVars, authVars, pool, finalized, committed, crashed,
                   tasks, locks, stored>>

\* rpc_send_raw_transaction, lines 109-124: enqueue under the write guard of Pool
EnqueueStep(call) ==
    /\ ~crashed
    /\ call \in in_flight
    /\ in_flight' = in_flight \ {call}
    /\ pool' = Enqueue(pool, call.raw, call.tx_hash)
    /\ last' = [op |-> "enqueue",
                result |-> IF EnqueueOk(pool, call.raw, call.tx_hash) THEN "Ok" ELSE "dup"]
    /\ UNCHANGED <<confVars, chainVars, authVars, finalized, committed, crashed,
                   tasks, locks, stored>>

\* RPCServer::send_raw_transaction
SendRawTransaction(raw, kms) == RawTransactionStep("send_raw_transaction", raw, kms)

\* Controller::process_network_msg, the arms that do not admit a transaction: the
\* errors of the "raw_tx" and "block" arms, and the panic of the catch-all arm;
\* chain.add_block is not part of the sources and no message of the model reaches it
network_result(msg) ==
    CASE msg.type = "raw_tx" /\ ~msg.decodes -> Err("Decode raw transaction failed")
      [] msg.type = "block" /\ ~msg.decodes -> Err("Decode block failed")
      [] msg.type = "block" /\ msg.decodes /\ ~msg.has_body -> Err("block body is empty")
      [] msg.type = "block" /\ msg.decodes /\ msg.has_body
            /\ msg.tx_hashes \ PoolHashes(pool) # {} -> Err("block is invalid")
      [] msg.type \notin KnownTypes -> Err("panic")

\* Controller::process_network_msg
ProcessNetworkMsg(msg) ==
    IF msg.type = "raw_tx" /\ msg.decodes
    THEN RawTransactionStep("process_network_msg", msg.raw, msg.kms)
    ELSE LET r == network_result(msg)
         IN /\ ~crashed
            /\ crashed' = (r = Err("panic"))
            /\ last' = [op |-> "process_network_msg", type |-> msg.type,
                        result |-> IF r = Err("panic")
                                   THEN "panic(unknown network message)" ELSE r.val]
            /\ UNCHANGED <<confVars, chainVars, authVars, pool, finalized, committed,
                           lockVars, stored>>

\* Chain::add_remote_proposal
AddRemoteProposal(block) ==
    LET hash == get_block_hash(block.header)
        result == add_remote_proposal(hash, block)
        level == (block.header.height - block_number - 1) + 1
    IN /\ CanGrow(result = Ok(TRUE))
       /\ fork_tree' = IF result = Ok(TRUE)
                       THEN [fork_tree EXCEPT ![level] = MapInsert(@, hash, block)]
                       ELSE fork_tree
       /\ crashed' = (result = Err("panic"))
       /\ last' = [op |-> "add_remote_proposal",
                   result |-> IF result = Ok(TRUE) THEN "Ok(true)"
                              ELSE IF result = Ok(FALSE) THEN "Ok(false)"
                              ELSE IF result = Err("panic") THEN "panic(unwrap)"
                              ELSE result.val]
       /\ UNCHANGED <<confVars, block_number, block_hash, main_chain, main_chain_tx_hash,
                      candidate_block, authVars, pool, finalized, committed, lockVars, stored>>

\* Chain::add_proposal
AddProposal(global_height) ==
    LET skips == candidate_block # NoCandidate \/ next_step(global_height) = "SyncStep"
    IN /\ CanGrow(~skips)
       /\ IF skips
          THEN /\ last' = [op |-> "add_proposal", result |-> "Ok(skipped)"]
               /\ UNCHANGED <<fork_tree, candidate_block>>
          ELSE LET tx_list == Package(pool, block_number + 1)
                   prevhash == IF main_chain = <<>> THEN block_hash
                               ELSE main_chain[Len(main_chain)]
                   height == block_number + Len(main_chain) + 1
                   full_block == MkBlock(prevhash, height, tx_list, NoProof)
                   hash == get_block_hash(full_block.header)
               IN /\ candidate_block' = <<height, hash, full_block>>
                  /\ fork_tree' = [fork_tree EXCEPT
                                      ![Len(main_chain) + 1] = MapInsert(@, hash, full_block)]
                  /\ last' = [op |-> "add_proposal", result |-> "Ok"]
       /\ UNCHANGED <<confVars, block_number, block_hash, main_chain, main_chain_tx_hash,
                      authVars, pool, finalized, committed, crashed, lockVars, stored>>

\* Chain::clear_proposal
ClearProposal ==
    /\ ~crashed
    /\ candidate_block' = NoCandidate
    /\ last' = [op |-> "clear_proposal", result |-> "Ok"]
    /\ UNCHANGED <<confVars, block_number, block_hash, fork_tree, main_chain,
                   main_chain_tx_hash, authVars, pool, finalized, committed, crashed,
                   lockVars, stored>>

\* Chain::clear_candidate
ClearCandidate ==
    /\ ~crashed
    /\ fork_tree' = [fork_tree EXCEPT ![1] = EmptyMap]
    /\ candidate_block' = NoCandidate
    /\ last' = [op |-> "clear_candidate", result |-> "Ok"]
    /\ UNCHANGED <<confVars, block_number, block_hash, main_chain, main_chain_tx_hash,
                   authVars, pool, finalized, committed, crashed, lockVars, stored>>

\* what Storage answers to the stores of one finalization: to those spawned by
\* do_store and to the awaited region-0 write of a slot's head
StorageTrue == [spawned |-> "true", lock |-> "true"]

\* finalize_block, lines 408-436: some update_system_config returned true
AcceptsUpdate(events) ==
    \E i \in DOMAIN events :
        events[i].ev = "update_system_config" /\ events[i].accepted

\* finalize_block: do_store panics on Ok(false) and on Err and the join panics
\* with it; the awaited store of a slot's head panics on Err only (expect)
FinalizeAborts(events, storage) ==
    /\ events # <<>>
    /\ \/ storage.spawned # "true"
       \/ storage.lock = "err" /\ AcceptsUpdate(events)

\* what Storage holds after the stores: a store it answered false to is not kept
Persist(after, storage) ==
    IF storage.lock = "false" THEN [after EXCEPT !.global = stored.global] ELSE after

\* the state a handler leaves: that of its outcome, or the state it found when
\* the process aborted (nothing of what it wrote in memory survives)
Leave(out, panics, storage) ==
    /\ crashed' = panics
    /\ IF panics
       THEN UNCHANGED <<chainVars, authVars, pool, finalized, stored>>
       ELSE /\ stored' = Persist(out.st.stored, storage)
            /\ block_number' = out.block_number
            /\ block_hash' = out.block_hash
            /\ fork_tree' = out.fork_tree
            /\ main_chain' = out.main_chain
            /\ main_chain_tx_hash' = out.main_chain_tx_hash
            /\ candidate_block' = out.candidate_block
            /\ history_hashes' = out.st.history
            /\ current_block_number' = out.st.current
            /\ sys_config' = out.st.cfg
            /\ pool' = out.st.pool
            /\ finalized' = out.st.fin

\* Chain::commit_block; a store that fails while finalizing aborts the process
CommitBlock(height, proposal, proof, storage) ==
    LET out == commit_block(height, proposal, proof)
        finalizes == out.st.events # <<>>
        panics == FinalizeAborts(out.st.events, storage)
    IN /\ CanRun(finalizes)
       /\ last' = [op |-> "commit_block",
                   again |-> [height |-> height, proposal |-> proposal] \in committed,
                   result |-> IF panics THEN "panic" ELSE ResultKind(out.result)]
       /\ committed' = IF out.result.ok /\ ~panics
                       THEN committed \cup {[height |-> height, proposal |-> proposal]}
                       ELSE committed
       /\ Leave(out, panics, storage)
       /\ UNCHANGED <<confVars, lockVars>>

\* Chain::process_block; a store that fails while finalizing aborts the process
ProcessBlock(block, env, storage) ==
    LET out == process_block(block, env)
        finalizes == out.st.events # <<>>
        panics == out.result = Err("panic") \/ FinalizeAborts(out.st.events, storage)
    IN /\ CanRun(finalizes)
       /\ last' = [op |-> "process_block",
                   result |-> IF out.result = Err("panic") THEN "panic(overflow)"
                              ELSE IF panics THEN "panic"
                              ELSE ResultKind(out.result)]
       /\ Leave(out, panics, storage)
       /\ UNCHANGED <<confVars, committed, lockVars>>

\* what a handler that only reads the chain leaves: its answer, or the panic
Answer(op, r) ==
    /\ ~crashed
    /\ crashed' = (r = Err("panic"))
    /\ last' = [op |-> op,
                result |-> IF r = Err("panic") THEN "panic(unwrap)" ELSE ResultKind(r)]
    /\ UNCHANGED <<confVars, chainVars, authVars, pool, finalized, committed, lockVars, stored>>

\* Chain::get_proposal; the subtraction in extract_proposal_info panics when
\* overflow checks are compiled in
GetProposal(env) == Answer("get_proposal", get_proposal(env))

\* Chain::check_proposal
CheckProposal(h, proposal, env) == Answer("check_proposal", check_proposal(h, proposal, env))

\* run, lines 583-602: the SystemConfig of init_sys_config.toml, and on an old
\* chain for every lock_id with a head in region 0 the update by the transaction
\* region 1 holds under that hash
ReplaySlots(st) ==
    IF st.height = 0 THEN InitSysConfig
    ELSE [l \in LockIds |->
            IF l \in DOMAIN st.global
            THEN UpdateConfig(InitSysConfig, st.txs[st.global[l]])[l]
            ELSE InitSysConfig[l]]

\* Authentication::init: load_data(3, h).unwrap() finds the body of every height
\* of the window
WindowStored(n) == n = 0 \/ InitWindow(n) \subseteq DOMAIN finalized

\* run: the process is started again on what Storage holds.  Chain,
\* Authentication and Pool are built anew; the bound on the chain's growth stays
\* that of the first start
StartAgain ==
    /\ block_number' = stored.height
    /\ block_hash' = stored.hash
    /\ fork_tree' = NewForkTree(block_delay_number)
    /\ main_chain' = <<>>
    /\ main_chain_tx_hash' = <<>>
    /\ candidate_block' = NoCandidate
    /\ sys_config' = ReplaySlots(stored)
    /\ pool' = <<>>
    /\ IF WindowStored(stored.height)
       THEN /\ history_hashes' =
                 IF stored.height = 0 THEN [h \in {0} |-> <<>>]
                 ELSE [h \in InitWindow(stored.height) |-> finalized[h]]
            /\ current_block_number' = stored.height
            /\ crashed' = FALSE
            /\ last' = [op |-> "restart", result |-> "Ok"]
       ELSE /\ UNCHANGED <<history_hashes, current_block_number>>
            /\ crashed' = TRUE
            /\ last' = [op |-> "restart", result |-> "panic(unwrap)"]
    /\ UNCHANGED <<confVars, finalized, committed, lockVars, stored>>

\* run after the process was stopped in order
Restart == ~crashed /\ StartAgain

\* run after the process aborted
RestartAfterAbort == crashed /\ StartAgain

\* finalize_block, lines 321-327, 343-346, 447 and 467-468: the stores it spawns
\* through do_store (regions 4, 8 and 6, region 0 key 0 and key 1) and the
\* spawned writes of the transactions; they run side by side until the join
SpawnedStores == {"region4", "region8", "region6", "height", "hash", "txs"}

\* what Storage holds when the process aborts in finalize_block: of the spawned
\* stores those that landed before the abort; the heads of the slots were awaited
Torn(before, after, landed) ==
    [height |-> IF "height" \in landed THEN after.height ELSE before.height,
     hash |-> IF "hash" \in landed THEN after.hash ELSE before.hash,
     global |-> after.global,
     txs |-> IF "txs" \in landed THEN after.txs ELSE before.txs,
     region4 |-> IF "region4" \in landed THEN after.region4 ELSE before.region4,
     region6 |-> IF "region6" \in landed THEN after.region6 ELSE before.region6,
     region8 |-> IF "region8" \in landed THEN after.region8 ELSE before.region8]

\* the head the process runs on is one block: block_hash names a block of height
\* block_number.  The aborts explored are those of a process started on such a
\* head, which keeps the chain of hashes within the bound on the chain's growth
WholeHead == block_hash[3] = block_number

\* Chain::process_block while a spawned store fails: the task of the store
\* panics, the process ends, and nothing of what was written in memory survives
ProcessBlockTorn(block, env, landed) ==
    LET out == process_block(block, env)
    IN /\ CanRun(TRUE)
       /\ WholeHead
       /\ out.st.events # <<>>
       /\ landed # SpawnedStores
       /\ crashed' = TRUE
       /\ last' = [op |-> "process_block", result |-> "panic"]
       /\ stored' = Torn(stored, out.st.stored, landed)
       /\ UNCHANGED <<confVars, chainVars, authVars, pool, finalized, committed, lockVars>>

-----------------------------------------------------------------------------
(* Specification *)

\* the storage answers that matter: a store can only fail where one is issued
StorageAnswers(events) ==
    {StorageTrue}
    \cup (IF events # <<>>
          THEN {[StorageTrue EXCEPT !.spawned = "false"],
                [StorageTrue EXCEPT !.spawned = "err"]}
          ELSE {})

\* the answers of a Storage that fails the store of a slot's head: such a store
\* is issued only after an accepted update
HeadAnswers(events) ==
    IF AcceptsUpdate(events)
    THEN {[StorageTrue EXCEPT !.lock = "false"], [StorageTrue EXCEPT !.lock = "err"]}
    ELSE {}

\* commit_block on an input of the consensus, under every answer of storage
CommitStep(c) ==
    \E ok \in StorageAnswers(commit_block(c.height, c.proposal, SomeProof).st.events) :
        CommitBlock(c.height, c.proposal, SomeProof, ok)

\* process_block on a block of a peer, under every answer of storage
ProcessStep(i) ==
    \E ok \in StorageAnswers(process_block(i.block, i.env).st.events) :
        ProcessBlock(i.block, i.env, ok)

\* process_block on a block of a peer while Storage fails the store of a slot's head
ProcessStepHead(i) ==
    \E s \in HeadAnswers(process_block(i.block, i.env).st.events) :
        ProcessBlock(i.block, i.env, s)

\* Consensus2ControllerServer::commit_block: proposal.unwrap() panics on a
\* request without proposal
CommitRpc(req) ==
    \/ /\ ~req.has_proposal
       /\ Answer("commit_block", Err("panic"))
    \/ /\ req.has_proposal
       /\ CommitStep(req.commit)

\* the chain handlers, fed by peers and the consensus; the pool stays empty
NextChain ==
    \/ \E b \in RemoteInputs(ChainBodies(init_block_number)) : AddRemoteProposal(b)
    \/ \E g \in GlobalHeights : AddProposal(g)
    \/ ClearProposal
    \/ ClearCandidate
    \/ \E c \in CommitInputs(ChainBodies(init_block_number)) : CommitStep(c)
    \/ \E i \in ProcessInputs(ChainBodies(init_block_number), {EnvGood}) : ProcessStep(i)

InitChain == Init /\ init_block_number = 0

Spec == InitChain /\ [][NextChain]_vars

\* the transaction path: admission to the pool and the finalization of blocks
\* that carry transactions
NextAuth ==
    \/ \E i \in SendInputs : SendRawTransaction(i.raw, i.kms)
    \/ \E c \in CommitInputs(Bodies(init_block_number)) : CommitStep(c)
    \/ \E i \in ProcessInputs(Bodies(init_block_number), ProcessEnvs) : ProcessStep(i)

\* a chain of BLOCKLIMIT stored blocks is one that finalized each as it came
InitAuth == Init /\ (init_block_number = BLOCKLIMIT => block_delay_number = 0)

SpecAuth == InitAuth /\ [][NextAuth]_vars


\* the admission path: transactions of every shape against a pool that is empty
\* or at its capacity, while blocks of a peer move the finalized height and
\* the chain id
NextAdmit ==
    \/ \E i \in AdmitInputs : SendRawTransaction(i.raw, i.kms)
    \/ \E m \in NetworkMsgs : ProcessNetworkMsg(m)
    \/ \E i \in ProcessInputs(AdmitBodies(init_block_number), {EnvGood}) : ProcessStep(i)

InitAdmit ==
    /\ \E p \in {<<>>, FilledPool(0)} : InitState(p)
    /\ init_block_number = 0
    /\ block_delay_number = 0

SpecAdmit == InitAdmit /\ [][NextAdmit]_vars

\* the handlers as concurrent tasks, seen by the locks they take
NextLocks ==
    \E t \in Tasks :
        \/ \E op \in Operations : Start(t, op)
        \/ Acquire(t)
        \/ QueueUp(t)
        \/ Grant(t)
        \/ Release(t)
        \/ Return(t)
        \/ Finish(t)

InitLocks == Init /\ init_block_number = 0 /\ block_delay_number = 0

SpecLocks == InitLocks /\ [][NextLocks]_vars

\* the requests of the consensus and the blocks of peers
CheckInputs ==
    {[h |-> h, proposal |-> p, env |-> e] :
        h \in {block_number, block_number + 1, block_number + block_delay_number + 2},
        p \in {[kind |-> "none"]}
              \cup {[kind |-> "bft", pre_state_root |-> r, pre_proof |-> pf] :
                       r \in {StoredStateRoot, "other"}, pf \in {SomeProof, NoProof}},
        e \in {EnvGood, [EnvGood EXCEPT !.early = FALSE]}}

CommitRequests ==
    {[has_proposal |-> FALSE]}
    \cup {[has_proposal |-> TRUE, commit |-> c] : c \in CommitInputs({<<>>})}

RemoteRequests ==
    RemoteInputs({<<>>}) \cup {[header |-> NoHeader, body |-> <<>>, proof |-> SomeProof]}

RpcEnvs == {EnvGood, [EnvGood EXCEPT !.early = FALSE],
            [EnvGood EXCEPT !.overflow_checks = TRUE]}

\* the handlers the consensus and the peers call, under every answer of storage
NextRpc ==
    \/ \E g \in GlobalHeights : AddProposal(g)
    \/ ClearProposal
    \/ \E e \in RpcEnvs : GetProposal(e)
    \/ \E i \in CheckInputs : CheckProposal(i.h, i.proposal, i.env)
    \/ \E r \in CommitRequests : CommitRpc(r)
    \/ \E b \in RemoteRequests : AddRemoteProposal(b)
    \/ \E i \in ProcessInputs({<<>>}, RpcEnvs) : ProcessStep(i)

SpecRpc == InitChain /\ [][NextRpc]_vars

\* the block bodies of the recovery path: no, one and two updates of a slot,
\* updates of two slots, and an update that is turned away
RecoverBodies ==
    {<<>>, <<TxU1>>, <<TxU3>>, <<TxU1, TxU2>>, <<TxU2, TxU3>>, <<TxU1, TxU3>>, <<TxU2>>}

\* finalization under every answer of Storage, and restarts
NextRecover ==
    \/ \E i \in SendInputs : SendRawTransaction(i.raw, i.kms)
    \/ \E i \in ProcessInputs(RecoverBodies, {EnvGood}) : ProcessStep(i)
    \/ \E i \in ProcessInputs(RecoverBodies, {EnvGood}) : ProcessStepHead(i)
    \/ Restart

InitRecover == Init /\ init_block_number = 0 /\ block_delay_number = 0

SpecRecover == InitRecover /\ [][NextRecover]_vars

\* process_block on blocks that carry n1, under every answer of the services
ProposeProcesses ==
    ProcessInputs({<<TxN1(init_block_number)>>}, ProcessEnvs) \cup OrderInputs

\* the proposer's path: transactions enter the pool, proposals are built from
\* it, and blocks with transactions are committed and processed
NextPropose ==
    \/ \E i \in SendInputsOf({TxN1(init_block_number)}) : SendRawTransaction(i.raw, i.kms)
    \/ \E g \in GlobalHeights : AddProposal(g)
    \/ ClearProposal
    \/ \E c \in CommitInputs({<<TxN1(init_block_number)>>}) : CommitStep(c)
    \/ \E i \in ProposeProcesses : ProcessStep(i)

SpecPropose == InitChain /\ [][NextPropose]_vars

\* send_raw_transaction as the two guarded sections it is made of, next to the
\* blocks of peers and the proposals of the node
NextRace ==
    \/ \E i \in SendInputsOf({TxN1(init_block_number)}) : CheckRawTxStep(i.raw, i.kms)
    \/ \E call \in in_flight : EnqueueStep(call)
    \/ \E i \in ProcessInputs({<<TxN1(init_block_number)>>}, {EnvGood}) : ProcessStep(i)
    \/ \E g \in GlobalHeights : AddProposal(g)
    \/ ClearProposal

SpecRace == InitChain /\ [][NextRace]_vars

\* finalization while stores fail one by one, and the restarts that follow
NextCrash ==
    \/ \E i \in ProcessInputs({<<>>, <<TxN1(init_block_number)>>}, {EnvGood}) : ProcessStep(i)
    \/ \E i \in ProcessInputs({<<>>, <<TxN1(init_block_number)>>}, {EnvGood}) :
          \E landed \in SUBSET SpawnedStores : ProcessBlockTorn(i.block, i.env, landed)
    \/ Restart
    \/ RestartAfterAbort

SpecCrash == InitRecover /\ [][NextCrash]_vars
-----------------------------------------------------------------------------
(* Properties *)

\* the inputs of the handlers under each specification
ChainCommits == CommitInputs(ChainBodies(init_block_number))
ChainRemotes == RemoteInputs(ChainBodies(init_block_number))
AuthCommits == CommitInputs(Bodies(init_block_number))
AuthProcesses == ProcessInputs(Bodies(init_block_number), ProcessEnvs)

\* the proposal of a commit carries a block
HasBlock(c) == c.proposal.kind = "bft" /\ c.proposal.has_block

\* the number of levels a committed block stands above the finalized head
LevelsAbove(c) == c.proposal.block.header.height - block_number

\* the chain of a committed block back to the finalized head, through the fork
\* tree by prevhash from the level below the block's own
CandidateTrace(c) ==
    LET b == c.proposal.block
    IN TraceChain(fork_tree, LevelsAbove(c) - 1, 0, b.header.prevhash,
                  <<get_block_hash(b.header)>>, TxHashes(b.body))

Max(a, b) == IF a >= b THEN a ELSE b

Min(a, b) == IF a <= b THEN a ELSE b

\* the last n elements of a sequence
LastN(s, n) == SubSeq(s, Len(s) - n + 1, Len(s))

\* the block the main chain ends with, or the finalized head
Tip == IF main_chain = <<>> THEN block_hash ELSE main_chain[Len(main_chain)]

\* the heights of the history window while the highest finalized height is c
Window(c) == {x \in DOMAIN finalized : x > c - BLOCKLIMIT /\ x <= c}

\* the window as [c - BLOCKLIMIT, c)
WindowBelow(c) == {x \in DOMAIN finalized : x >= c - BLOCKLIMIT /\ x < c}

InBlocks(tx_hash, heights) == \E x \in heights : tx_hash \in Range(finalized[x])

\* a Normal transaction that passes every check made before the replay check
WellFormed(raw) ==
    /\ raw.kind = "normal"
    /\ raw.has_witness
    /\ raw.has_transaction
    /\ check_transaction(raw, current_block_number).ok

\* C1 (as amended): a Normal transaction that check_raw_tx accepts while the
\* highest finalized height is h is in no finalized block of the heights
\* (h - BLOCKLIMIT, h], and a well-formed Normal transaction whose hash is in a
\* block of those heights is rejected with "dup".
C1_ReplayWindow ==
    [][last'.op = "send_raw_transaction" =>
       \A i \in SendInputs :
         (i.raw.kind = "normal" /\ SendRawTransaction(i.raw, i.kms)) =>
            LET r == check_raw_tx(i.raw, history_hashes, current_block_number, i.kms)
                in_window == InBlocks(i.raw.transaction_hash, Window(current_block_number))
            IN /\ r.ok => ~in_window
               /\ (WellFormed(i.raw) /\ in_window) => r = Err("dup")]_vars

\* a Normal transaction was admitted while the window holds a block with
\* transactions
C1_Witness ==
    /\ last.op = "send_raw_transaction"
    /\ last.kind = "normal"
    /\ last.checked = "Ok"
    /\ \E x \in Window(current_block_number) : finalized[x] # <<>>

\* C1 as stated, with the window [h - BLOCKLIMIT, h): an accepted Normal
\* transaction is in no finalized block of those heights, and one whose hash is
\* there is rejected as a duplicate.
C1_AsStated ==
    [][last'.op = "send_raw_transaction" =>
       \A i \in SendInputs :
         (i.raw.kind = "normal" /\ SendRawTransaction(i.raw, i.kms)) =>
            LET r == check_raw_tx(i.raw, history_hashes, current_block_number, i.kms)
                in_window == InBlocks(i.raw.transaction_hash,
                                      WindowBelow(current_block_number))
            IN /\ r.ok => ~in_window
               /\ (WellFormed(i.raw) /\ in_window) => r = Err("dup")]_vars

C3_ForkExtension ==
    [][(last'.op = "commit_block" /\ last'.result # "panic") =>
       \A c \in ChainCommits :
         (/\ HasBlock(c)
          /\ c.height = c.proposal.block.header.height
          /\ LevelsAbove(c) > Len(main_chain)
          /\ CandidateTrace(c).err = "none"
          /\ CandidateTrace(c).prev_hash = block_hash
          /\ CommitStep(c)) =>
            LET k == LevelsAbove(c)
            IN /\ last'.result = "Ok"
               /\ main_chain' = LastN(Reverse(CandidateTrace(c).chain),
                                      Min(k, block_delay_number))
               /\ block_number' = block_number + Max(0, k - block_delay_number)]_vars

\* C4 (as amended): a commit of a (height, proposal) that was committed before
\* returns an error, ProposalTooLow exactly when height <= block_number (always
\* so without delay) and else NoForkTree or CandidateChainDoesNotFit, and changes
\* none of block_number, block_hash, main_chain, main_chain_tx_hash.
C4_RepeatedCommit ==
    [][(last'.op = "commit_block" /\ last'.again) =>
       \A c \in committed :
         CommitStep(c) =>
            /\ last'.result \in {"ProposalTooLow", "NoForkTree", "CandidateChainDoesNotFit"}
            /\ last'.result = "ProposalTooLow" <=> c.height <= block_number
            /\ block_delay_number = 0 => last'.result = "ProposalTooLow"
            /\ UNCHANGED <<block_number, block_hash, main_chain, main_chain_tx_hash>>
            /\ ~crashed']_vars

\* a commit was repeated while its block waits in main_chain
C4_Witness ==
    /\ last.op = "commit_block"
    /\ last.again
    /\ last.result = "NoForkTree"
    /\ main_chain # <<>>

\* C4 as stated: a commit of a (height, proposal) that was committed before
\* returns ProposalTooLow and changes no chain state.
C4_AsStated ==
    [][(last'.op = "commit_block" /\ last'.again) =>
       \A c \in committed :
         CommitStep(c) =>
            /\ last'.result = "ProposalTooLow"
            /\ UNCHANGED chainVars]_vars

\* C5: a commit of a block whose chain back to the finalized head holds the same
\* tx hash in two blocks returns CandidateChainHasDupTx and leaves the chain state
\* unchanged.
C5_DupTxRejected ==
    [][last'.op = "commit_block" =>
       \A c \in ChainCommits :
         (/\ HasBlock(c)
          /\ c.height = c.proposal.block.header.height
          /\ CandidateTrace(c).err = "CandidateChainHasDupTx"
          /\ CommitStep(c)) =>
            /\ last'.result = "CandidateChainHasDupTx"
            /\ UNCHANGED chainVars]_vars

IntegrityErrors ==
    {"CandidateChainInterrupted", "CandidateChainHasNoProof", "CandidateChainHasDupTx",
     "CandidateChainDoesNotFit"}

\* C6: a commit that fails with an integrity error does not abort, removes from
\* fork_tree level 0 the block its candidate chain stands on, and leaves
\* block_number, block_hash, main_chain and main_chain_tx_hash unchanged.
C6_IntegrityErrors ==
    [][(last'.op = "commit_block" /\ last'.result \in IntegrityErrors) =>
       \A c \in ChainCommits :
         CommitStep(c) =>
            /\ ~crashed'
            /\ \A h \in Range(CandidateTrace(c).chain) \cap DOMAIN fork_tree[1] :
                  h \notin DOMAIN fork_tree'[1]
            /\ UNCHANGED <<block_number, block_hash, main_chain, main_chain_tx_hash>>]_vars

\* C7: main_chain never holds more than block_delay_number hashes.
C7_FinalizationLag == Len(main_chain) <= block_delay_number

\* a commit succeeded and main_chain is as long as the delay allows
C7_Witness ==
    /\ last.op = "commit_block"
    /\ last.result = "Ok"
    /\ Len(main_chain) = block_delay_number

\* C8: the fork tree has 2 * block_delay_number + 2 levels, from construction on.
C8_ForkTreeBound == Len(fork_tree) = 2 * block_delay_number + 2

\* C9: add_remote_proposal of a block of height h returns ProposalTooLow when
\* h <= block_number and ProposalTooHigh when h > block_number +
\* 2 * block_delay_number + 2, the tree unchanged; else it inserts the block at
\* level h - block_number - 1 and returns true if the hash was absent there, and
\* returns false, the tree unchanged, if it was present.
C9_RemoteBounds ==
    [][last'.op = "add_remote_proposal" =>
       \A b \in ChainRemotes :
         AddRemoteProposal(b) =>
            LET h == b.header.height
                hash == get_block_hash(b.header)
                level == (h - block_number - 1) + 1
            IN IF h <= block_number
               THEN last'.result = "ProposalTooLow" /\ fork_tree' = fork_tree
               ELSE IF h > block_number + 2 * block_delay_number + 2
               THEN last'.result = "ProposalTooHigh" /\ fork_tree' = fork_tree
               ELSE IF hash \notin DOMAIN fork_tree[level]
               THEN /\ last'.result = "Ok(true)"
                    /\ DOMAIN fork_tree' = DOMAIN fork_tree
                    /\ DOMAIN fork_tree'[level] = DOMAIN fork_tree[level] \cup {hash}
                    /\ fork_tree'[level][hash] = b
                    /\ \A l \in DOMAIN fork_tree : \A k \in DOMAIN fork_tree[l] :
                          fork_tree'[l][k] = fork_tree[l][k]
                    /\ \A l \in DOMAIN fork_tree \ {level} :
                          DOMAIN fork_tree'[l] = DOMAIN fork_tree[l]
               ELSE last'.result = "Ok(false)" /\ fork_tree' = fork_tree]_vars

\* a block was inserted at the highest level the bounds admit
C9_Witness ==
    /\ last.op = "add_remote_proposal"
    /\ last.result = "Ok(true)"
    /\ DOMAIN fork_tree[2 * block_delay_number + 2] # {}

IsUpdate(e) == e.ev = "update_system_config"

\* the head of a slot when the i-th event is issued: that of the last update of
\* the slot among the events before it, or the one the block found
HeadBefore(events, i, cfg) ==
    LET earlier == {j \in 1..(i - 1) :
                      IsUpdate(events[j]) /\ events[j].lock_id = events[i].lock_id}
    IN IF earlier = {} THEN cfg[events[i].lock_id].head
       ELSE events[CHOOSE j \in earlier : \A k \in earlier : k <= j].head_after

\* what finalizing one block does to the slots, read off the calls it issued:
\* cfg is the configuration before, cfg2 the one after
SlotChain(events, cfg, cfg2) ==
    /\ \A i \in DOMAIN events :
          IsUpdate(events[i]) =>
             LET e == events[i]
                 next_is_write == /\ i < Len(events)
                                  /\ events[i + 1].ev \in {"store", "reconfigure"}
             IN /\ e.head_before = HeadBefore(events, i, cfg)
                /\ e.accepted <=> e.pre_tx_hash = e.head_before
                /\ e.accepted =>
                     /\ e.head_after = e.tx
                     /\ i < Len(events)
                     /\ events[i + 1] = StoreEv(0, e.lock_id, e.tx)
                /\ ~e.accepted =>
                     /\ e.head_after = e.head_before
                     /\ e.payload_after = e.payload_before
                     /\ ~next_is_write
    /\ \A l \in LockIds :
          LET updates == {j \in DOMAIN events : IsUpdate(events[j]) /\ events[j].lock_id = l}
          IN IF \E j \in updates : events[j].accepted
             THEN LET top == CHOOSE j \in updates :
                                /\ events[j].accepted
                                /\ \A k \in updates : events[k].accepted => k <= j
                  IN cfg2[l] = [payload |-> events[top].payload_after,
                                head |-> events[top].tx]
             ELSE cfg2[l] = cfg[l]

\* C10: in every block that is finalized, a utxo transaction changes its slot
\* only if its pre_tx_hash is the slot's head at that moment, and the head is
\* then that transaction's hash; one whose pre_tx_hash differs leaves payload and
\* head as they were and is followed by no region-0 write and no reconfigure.
C10_UniqueSlotChain ==
    [][/\ (last'.op = "commit_block" /\ last'.result = "Ok") =>
            \A c \in AuthCommits : CommitStep(c) =>
               SlotChain(commit_block(c.height, c.proposal, SomeProof).st.events,
                         sys_config, sys_config')
       /\ (last'.op = "process_block" /\ last'.result = "Ok") =>
            \A i \in AuthProcesses : ProcessStep(i) =>
               SlotChain(process_block(i.block, i.env).st.events,
                         sys_config, sys_config')]_vars

\* a block was finalized in which one update was turned away and one accepted
C10_Witness ==
    /\ last.op \in {"commit_block", "process_block"}
    /\ last.result = "Ok"
    /\ sys_config[LOCK_ID_ADMIN].head = TxU3.transaction_hash
    /\ sys_config[LOCK_ID_VALIDATORS].head = ZeroHash


-----------------------------------------------------------------------------
(* The utxo transactions of finalized blocks *)

\* every update a block issued came from a transaction linked to its slot's head
AllLinked(events) ==
    \A i \in DOMAIN events :
        IsUpdate(events[i]) => events[i].pre_tx_hash = events[i].head_before

\* C11: no block is finalized that holds a utxo transaction whose pre_tx_hash
\* differs from the head of its slot at the time the block is finalized.
C11_NoStaleUtxo ==
    [][/\ (last'.op = "commit_block" /\ last'.result = "Ok") =>
            \A c \in AuthCommits : CommitStep(c) =>
               AllLinked(commit_block(c.height, c.proposal, SomeProof).st.events)
       /\ (last'.op = "process_block" /\ last'.result = "Ok") =>
            \A i \in AuthProcesses : ProcessStep(i) =>
               AllLinked(process_block(i.block, i.env).st.events)]_vars

ReconfLocks == {LOCK_ID_VALIDATORS, LOCK_ID_BLOCK_INTERVAL}

\* the payload of a slot once the i-th event is issued: that of the last update
\* of the slot up to it, or the one the block found
PayloadAt(events, i, lock, cfg) ==
    LET upto == {j \in 1..i : IsUpdate(events[j]) /\ events[j].lock_id = lock}
    IN IF upto = {} THEN cfg[lock].payload
       ELSE events[CHOOSE j \in upto : \A k \in upto : k <= j].payload_after

\* the output field of the transaction tx_hash of a body
OutputOf(body, tx_hash) ==
    LET k == CHOOSE k \in DOMAIN body : body[k].transaction_hash = tx_hash
    IN body[k].output

\* what finalizing the block at height h with this body owes the consensus: each
\* transaction linked to the head of a reconfiguring slot puts its output in the
\* slot, is written to region 0 and is followed by one reconfigure call with h
\* and the configuration as it then is; no other reconfigure call is issued
Reconfigures(events, body, h, cfg, cfg2) ==
    LET linked == {i \in DOMAIN events :
                     /\ IsUpdate(events[i])
                     /\ events[i].pre_tx_hash = HeadBefore(events, i, cfg)
                     /\ events[i].lock_id \in ReconfLocks}
        calls == {i \in DOMAIN events : events[i].ev = "reconfigure"}
    IN /\ \A i \in linked :
            LET e == events[i]
                later == {j \in DOMAIN events :
                            j > i /\ IsUpdate(events[j]) /\ events[j].accepted
                            /\ events[j].lock_id = e.lock_id}
            IN /\ e.payload_after = OutputOf(body, e.tx)
               /\ later = {} => cfg2[e.lock_id] = [payload |-> OutputOf(body, e.tx),
                                                   head |-> e.tx]
               /\ i + 2 <= Len(events)
               /\ events[i + 1] = StoreEv(0, e.lock_id, e.tx)
               /\ events[i + 2] =
                    [ev |-> "reconfigure", height |-> h,
                     block_interval |-> PayloadAt(events, i, LOCK_ID_BLOCK_INTERVAL, cfg),
                     validators |-> PayloadAt(events, i, LOCK_ID_VALIDATORS, cfg)]
       /\ calls = {i + 2 : i \in linked}

\* C12: a block finalized at height h that carries a utxo transaction for
\* LOCK_ID_VALIDATORS or LOCK_ID_BLOCK_INTERVAL linked to the slot's head leaves
\* the transaction's payload in the slot (until a later transaction of the block
\* replaces it), writes the transaction hash to region 0 under the lock id and
\* calls reconfigure exactly once for it, with h and the new configuration; no
\* reconfigure is called for any other transaction.
C12_Reconfigure ==
    [][/\ (last'.op = "commit_block" /\ last'.result = "Ok") =>
            \A c \in AuthCommits : CommitStep(c) =>
               Reconfigures(commit_block(c.height, c.proposal, SomeProof).st.events,
                            c.proposal.block.body, c.proposal.block.header.height,
                            sys_config, sys_config')
       /\ (last'.op = "process_block" /\ last'.result = "Ok") =>
            \A i \in AuthProcesses : ProcessStep(i) =>
               Reconfigures(process_block(i.block, i.env).st.events,
                            i.block.body, i.block.header.height,
                            sys_config, sys_config')]_vars

\* a block was finalized in which two transactions changed the validators in turn
C12_Witness ==
    /\ last.op \in {"commit_block", "process_block"}
    /\ last.result = "Ok"
    /\ sys_config[LOCK_ID_VALIDATORS] = [payload |-> "validators-2", head |-> "u2"]

\* the heights whose tx hashes the window holds after height h is finalized
WindowHeights(h) == (Max(0, h - BLOCKLIMIT) + 1) .. h

\* the window after height h is finalized: current_block_number is h, the window
\* holds the tx-hash list of every block in WindowHeights(h), and holds nothing
\* else but the empty list of the genesis block
WindowAfter(h, hist, cur, fin) ==
    /\ cur = h
    /\ WindowHeights(h) \subseteq DOMAIN hist
    /\ \A x \in WindowHeights(h) : hist[x] = fin[x]
    /\ \A x \in DOMAIN hist \ WindowHeights(h) : x = 0 /\ hist[x] = <<>>

\* every height up to the highest finalized one was finalized
InOrder == DOMAIN finalized = 0..current_block_number

\* C13: once height h is finalized, each height before it having been finalized
\* in turn, the history window holds exactly the tx-hash lists of the blocks at
\* the heights in (max(0, h - BLOCKLIMIT), h] (and, below BLOCKLIMIT, the empty
\* list of the genesis block), and current_block_number is h.
C13_HistoryWindow ==
    [][/\ (last'.op = "commit_block" /\ last'.result = "Ok" /\ InOrder) =>
            \A c \in AuthCommits :
               (/\ HasBlock(c)
                /\ c.proposal.block.header.height = current_block_number + 1
                /\ commit_block(c.height, c.proposal, SomeProof).st.events # <<>>
                /\ CommitStep(c)) =>
                  WindowAfter(current_block_number + 1, history_hashes',
                              current_block_number', finalized')
       /\ (last'.op = "process_block" /\ last'.result = "Ok" /\ InOrder) =>
            \A i \in AuthProcesses :
               (/\ i.block.header.height = current_block_number + 1
                /\ ProcessStep(i)) =>
                  WindowAfter(current_block_number + 1, history_hashes',
                              current_block_number', finalized')]_vars

\* the block above a window of BLOCKLIMIT blocks was finalized, with transactions
C13_Witness ==
    /\ last.op \in {"commit_block", "process_block"}
    /\ last.result = "Ok"
    /\ current_block_number = BLOCKLIMIT + 1
    /\ history_hashes[BLOCKLIMIT + 1] # <<>>
    /\ 1 \notin DOMAIN history_hashes

-----------------------------------------------------------------------------
(* Admission *)

\* C14 (as amended): a send_raw_transaction whose transaction passes
\* check_raw_tx, whose hash is not in the pool and that finds the pool below its
\* capacity appends it to the pool (length + 1), broadcasts it once and returns
\* its hash; one whose hash is in the pool, or that finds the pool at its
\* capacity, returns "dup", leaves the pool unchanged and broadcasts nothing.
C14_Admission ==
    [][last'.op = "send_raw_transaction" =>
       \A i \in AdmitInputs :
         SendRawTransaction(i.raw, i.kms) =>
            LET r == check_raw_tx(i.raw, history_hashes, current_block_number, i.kms)
            IN r.ok =>
                 IF i.raw.transaction_hash \notin PoolHashes(pool)
                    /\ Len(pool) < PoolCapacity
                 THEN /\ pool' = Append(pool, i.raw)
                      /\ Len(pool') = Len(pool) + 1
                      /\ last'.broadcasts = 1
                      /\ last'.result = "Ok"
                      /\ last'.returned = i.raw.transaction_hash
                 ELSE /\ pool' = pool
                      /\ last'.broadcasts = 0
                      /\ last'.result = "dup"]_vars

\* a transaction was sent again while it waits in the pool
C14_Witness ==
    /\ last.op = "send_raw_transaction"
    /\ last.checked = "Ok"
    /\ last.result = "dup"
    /\ Len(pool) = 1

\* C14 as stated: a transaction that passes check_raw_tx and whose hash is not
\* in the pool is added, broadcast once and its hash returned; one whose hash is
\* in the pool is turned away with "dup".
C14_AsStated ==
    [][last'.op = "send_raw_transaction" =>
       \A i \in AdmitInputs :
         SendRawTransaction(i.raw, i.kms) =>
            LET r == check_raw_tx(i.raw, history_hashes, current_block_number, i.kms)
            IN r.ok =>
                 IF i.raw.transaction_hash \notin PoolHashes(pool)
                 THEN /\ Len(pool') = Len(pool) + 1
                      /\ last'.broadcasts = 1
                      /\ last'.result = "Ok"
                      /\ last'.returned = i.raw.transaction_hash
                 ELSE /\ pool' = pool
                      /\ last'.broadcasts = 0
                      /\ last'.result = "dup"]_vars

\* C15: check_raw_tx accepts a transaction only if the KMS answered true to
\* verify_tx_hash; when the call fails or answers false it does not accept.
C15_HashVerified ==
    [][last'.op = "send_raw_transaction" =>
       \A i \in AdmitInputs :
         SendRawTransaction(i.raw, i.kms) =>
            (check_raw_tx(i.raw, history_hashes, current_block_number, i.kms).ok
               => i.kms.verify = "true")]_vars

\* a Normal transaction whose checks up to the chain id's all pass
PassesBeforeChainId(raw, cur) ==
    /\ raw.kind = "normal"
    /\ raw.has_witness
    /\ raw.has_transaction
    /\ raw.version = 0
    /\ raw.nonce_len <= 128
    /\ ~ValidUntilOutside(raw.valid_until_block, cur)
    /\ raw.value_len = 32

\* C16: check_raw_tx accepts a Normal transaction only if its chain_id is the
\* one the CHAIN_ID slot holds, and rejects one that passes the checks before
\* with "Invalid chain_id" if it is another.
C16_LiveChainId ==
    [][last'.op = "send_raw_transaction" =>
       \A i \in AdmitInputs :
         (i.raw.kind = "normal" /\ SendRawTransaction(i.raw, i.kms)) =>
            LET r == check_raw_tx(i.raw, history_hashes, current_block_number, i.kms)
                live == sys_config[LOCK_ID_CHAIN_ID].payload
            IN /\ r.ok => i.raw.chain_id = live
               /\ (PassesBeforeChainId(i.raw, current_block_number)
                   /\ i.raw.chain_id # live) => r = Err("Invalid chain_id")]_vars

\* C17: with finalized height c, check_raw_tx accepts a Normal transaction only
\* if version = 0, len(nonce) <= 128, len(value) = 32 and valid_until_block is in
\* (c, c + BLOCKLIMIT]; one that passes the checks before and whose
\* valid_until_block is <= c or > c + BLOCKLIMIT is rejected with
\* "Invalid valid_until_block"; a rejected transaction leaves the pool and the
\* history window unchanged and is not broadcast.
C17_StructuralChecks ==
    [][last'.op = "send_raw_transaction" =>
       \A i \in AdmitInputs :
         SendRawTransaction(i.raw, i.kms) =>
            LET raw == i.raw
                c == current_block_number
                r == check_raw_tx(raw, history_hashes, c, i.kms)
            IN /\ (raw.kind = "normal" /\ r.ok) =>
                     /\ raw.version = 0
                     /\ raw.nonce_len <= 128
                     /\ raw.value_len = 32
                     /\ raw.valid_until_block > c
                     /\ raw.valid_until_block <= c + BLOCKLIMIT
               /\ (/\ raw.kind = "normal" /\ raw.has_witness /\ raw.has_transaction
                   /\ raw.version = 0 /\ raw.nonce_len <= 128
                   /\ (raw.valid_until_block <= c
                       \/ raw.valid_until_block > c + BLOCKLIMIT)) =>
                     /\ r = Err("Invalid valid_until_block")
                     /\ last'.result = "Invalid valid_until_block"
               /\ ~r.ok =>
                     /\ pool' = pool
                     /\ history_hashes' = history_hashes
                     /\ current_block_number' = c
                     /\ last'.broadcasts = 0]_vars

\* a transaction due at the height just finalized was turned away
C17_Witness ==
    /\ last.op = "send_raw_transaction"
    /\ last.result = "Invalid valid_until_block"
    /\ current_block_number = init_block_number + 1
    /\ pool # <<>>

-----------------------------------------------------------------------------
(* Locks *)

\* the order of the locks: Chain, then Authentication, then Pool
LockRank(l) == CASE l = "chain" -> 1 [] l = "auth" -> 2 [] l = "pool" -> 3

\* a task that asks for a lock holds only locks that come before it in the order
OrderKept ==
    \A t \in Tasks :
        At(t, "acq") => \A l \in Held(t) : LockRank(l) < LockRank(StepOf(t).lock)

\* the task has a step to take
CanStep(t) ==
    /\ Busy(t)
    /\ \/ ~tasks[t].waiting
       \/ /\ Head(locks[StepOf(t).lock].queue) = t
          /\ Compatible(StepOf(t).lock, StepOf(t).mode)

\* C18: in every interleaving of the handlers each task asks for a lock only
\* while it holds none that is equal or later in the order Chain, Authentication,
\* Pool, and whenever a task is busy some task has a step to take: no deadlock.
C18_LockOrder ==
    /\ OrderKept
    /\ (\E t \in Tasks : Busy(t)) => \E t \in Tasks : CanStep(t)

\* a task that holds Chain waits for Authentication, which another task holds
C18_Witness ==
    \E t \in Tasks :
        /\ tasks[t].waiting
        /\ StepOf(t).lock = "auth"
        /\ "chain" \in Held(t)
        /\ \E h \in locks["auth"].holders : h.task # t

\* C19: no task holds a lock of Chain, Authentication or Pool while it is
\* suspended on a call of another service, and so no get_block_number waits for
\* the Chain lock of a task that is suspended on such a call.
C19_NoLockAcrossCalls ==
    /\ \A t \in Tasks : At(t, "call") => Held(t) = {}
    /\ ~ \E t \in Tasks, u \in Tasks :
            /\ tasks[t].op = "get_block_number" /\ tasks[t].waiting
            /\ At(u, "call") /\ "chain" \in Held(u)

-----------------------------------------------------------------------------
(* Panics *)

\* C20: the process aborts only in finalize_block: whenever it has panicked, the
\* last handler was a commit_block or a process_block that was finalizing a
\* block; get_proposal, check_proposal, commit_block and its RPC wrapper,
\* add_remote_proposal and process_block otherwise return an error.
C20_OnlyFinalizePanics ==
    crashed => (last.op \in {"commit_block", "process_block"} /\ last.result = "panic")

\* C21: process_network_msg ignores a message whose type is not one of the known
\* types: it returns without error, pool, chain and authenticator stay as they
\* were, and the process keeps running.
C21_UnknownIgnored ==
    [][(last'.op = "process_network_msg") =>
        \A m \in NetworkMsgs :
          (m.type \notin KnownTypes /\ ProcessNetworkMsg(m)) =>
              /\ last'.result = "Ok"
              /\ ~crashed'
              /\ UNCHANGED <<pool, chainVars, authVars>>]_vars

-----------------------------------------------------------------------------
(* Failing stores *)

RecoverProcesses == ProcessInputs(RecoverBodies, {EnvGood})

\* the answers of Storage under which some store fails
StorageFaults ==
    {[spawned |-> a, lock |-> b] : a, b \in {"true", "false", "err"}} \ {StorageTrue}

\* a store that fails under the answer `storage` is among those the events issue:
\* the spawned stores belong to every finalization, the store of a slot's head
\* to those with an accepted update
WriteIssued(events, storage) ==
    /\ events # <<>>
    /\ storage.spawned # "true" \/ (storage.lock # "true" /\ AcceptsUpdate(events))

\* C22: finalize_block returns normally only if every write it issued succeeded;
\* when a store answers false or fails, the process aborts and block_number and
\* block_hash are not advanced to the block.
C22_EveryWriteChecked ==
    [][(last'.op = "process_block") =>
        \A i \in RecoverProcesses : \A s \in StorageFaults :
            (/\ WriteIssued(process_block(i.block, i.env).st.events, s)
             /\ ProcessBlock(i.block, i.env, s)) =>
                (crashed' /\ UNCHANGED <<block_number, block_hash>>)]_vars

-----------------------------------------------------------------------------
(* check_proposal *)

\* the proposal's pre_state_root and pre_proof equal what Storage holds
PreMatches(proposal) ==
    /\ proposal.kind = "bft"
    /\ proposal.pre_state_root = "executed"
    /\ proposal.pre_proof = SomeProof

\* C23: check_proposal(h, proposal) returns ProposalTooLow when h <= block_number
\* and ProposalTooHigh when h is above block_number + block_delay_number + 1;
\* otherwise it returns true exactly when the proposal's pre_state_root and
\* pre_proof equal what is stored for h - block_delay_number - 1, and
\* ProposalCheckError when either differs; it never changes chain state.  Stated
\* for the requests that carry a proposal.
C23_CheckProposal ==
    [][(last'.op = "check_proposal") =>
        \A i \in CheckInputs :
          (i.proposal.kind = "bft" /\ CheckProposal(i.h, i.proposal, i.env)) =>
              /\ UNCHANGED chainVars
              /\ last'.result =
                    IF i.h <= block_number THEN "ProposalTooLow"
                    ELSE IF i.h > block_number + block_delay_number + 1
                         THEN "ProposalTooHigh"
                    ELSE IF PreMatches(i.proposal) THEN "Ok"
                    ELSE "ProposalCheckError"]_vars

-----------------------------------------------------------------------------
(* process_block *)

\* every transaction of the body passes check_raw_tx and is not in main_chain_tx_hash
BodyPasses(body, kms) ==
    \A k \in DOMAIN body :
        /\ check_raw_tx(body[k], history_hashes, current_block_number, kms).ok
        /\ body[k].transaction_hash \notin Range(main_chain_tx_hash)

\* the block is within the heights process_block admits and its proposal can be
\* re-assembled
Assembles(i) ==
    /\ i.block.header.height > block_number
    /\ i.block.header.height <= block_number + block_delay_number + 1
    /\ assemble_proposal(i.block.header.height, i.env).ok

\* C24: process_block finalizes a block only after prevhash == block_hash, the
\* check_block of the consensus and the check of every body transaction have
\* passed, in this order; when a check fails an error is returned, finalize_block
\* is not called, and block_number, block_hash, the history window and the pool
\* stay as they were.  In a step of process_block: a block whose check fails has
\* the error of the first failing check for its result and issues no event of
\* finalize_block; a step that ends in an error changes nothing; a step that
\* finalizes is one of a block that passes the three checks.
C24_ChecksBeforeFinalize ==
    [][(last'.op = "process_block") =>
        /\ \A i \in ProposeProcesses :
             LET prev_ok == i.block.header.prevhash = block_hash
                 cons_ok == i.env.check_block = "true"
                 txs_ok == BodyPasses(i.block.body, i.env.kms)
                 out == process_block(i.block, i.env)
             IN /\ ~(prev_ok /\ cons_ok /\ txs_ok) =>
                     (~out.result.ok /\ out.st.events = <<>>)
                /\ (Assembles(i) /\ ~prev_ok) => out.result = Err("BlockCheckError")
                /\ (Assembles(i) /\ prev_ok /\ ~cons_ok) =>
                     out.result.val \in {"ConsensusProposalCheckError", "InternalError"}
                /\ (Assembles(i) /\ prev_ok /\ cons_ok /\ ~txs_ok) =>
                     out.result.val \in {"Invalid tx_hash", "DupTransaction", "dup",
                                         "Invalid valid_until_block"}
        /\ (last'.result \notin {"Ok", "panic"}) =>
                UNCHANGED <<block_number, block_hash, history_hashes,
                            current_block_number, pool, finalized>>
        /\ (last'.result \in {"Ok", "panic"}) =>
             \A i \in ProposeProcesses :
                ProcessStep(i) =>
                    /\ i.block.header.prevhash = block_hash
                    /\ i.env.check_block = "true"
                    /\ BodyPasses(i.block.body, i.env.kms)]_vars

\* a block with a transaction went through the three checks and was finalized
C24_Witness ==
    /\ last.op = "process_block"
    /\ last.result = "Ok"
    /\ block_number > init_block_number
    /\ block_number \in DOMAIN finalized
    /\ finalized[block_number] # <<>>

-----------------------------------------------------------------------------
(* Recovery of the system configuration *)

\* region 0 holds the head of every slot that was updated
HeadsStored ==
    \A l \in LockIds :
        sys_config[l].head # ZeroHash =>
            (l \in DOMAIN stored.global /\ stored.global[l] = sys_config[l].head)

\* C26: after a restart at a finalized height above 0, every store having
\* succeeded, the SystemConfig rebuilt from the initial configuration, region 0
\* and region 1 has for every slot the payload and the head the SystemConfig
\* held before the restart, however many updates a slot accepted.
C26_ConfigRecovered ==
    [][(Restart /\ stored.height > 0 /\ HeadsStored) =>
          \A l \in LockIds : sys_config'[l] = sys_config[l]]_vars

-----------------------------------------------------------------------------
(* next_step *)

\* the peers are ahead, and the lowest fork level is empty or they are 6 or more ahead
SyncExpected(global_height) ==
    /\ global_height > block_number
    /\ DOMAIN fork_tree[1] = {} \/ global_height >= block_number + 6

\* C25: next_step returns Sync exactly when the peer height is above block_number
\* and fork_tree[0] is empty or the peer height is at least block_number + 6, and
\* Online otherwise; it depends on these three only and changes no state (the
\* add_proposal that calls it and finds Sync leaves everything as it was).
C25_NextStep ==
    [][(last'.op = "add_proposal") =>
        \A g \in GlobalHeights :
            /\ next_step(g) = (IF SyncExpected(g) THEN "SyncStep" ELSE "OnlineStep")
            /\ (SyncExpected(g) /\ AddProposal(g)) =>
                  /\ last'.result = "Ok(skipped)"
                  /\ UNCHANGED <<chainVars, authVars, pool>>
            /\ (~SyncExpected(g) /\ candidate_block = NoCandidate /\ AddProposal(g)) =>
                  last'.result = "Ok"]_vars

\* add_proposal found the sync forced although the lowest fork level holds a block
C25_Witness ==
    /\ last.op = "add_proposal"
    /\ last.result = "Ok(skipped)"
    /\ candidate_block = NoCandidate
    /\ DOMAIN fork_tree[1] # {}

-----------------------------------------------------------------------------
(* The order of events within finalize_block *)

ProposeCommits == CommitInputs({<<TxN1(init_block_number)>>})

\* how many of the first j events are of the kind
CountOf(events, j, Kind(_)) == Cardinality({i \in 1..j : Kind(events[i])})

\* the first event of a call of finalize_block: the region-4 write
IsCallStart(e) == e.ev = "store" /\ e.region = 4
IsInsertTxHash(e) == e.ev = "insert_tx_hash"
IsPoolUpdate(e) == e.ev = "pool_update"
IsReconfigure(e) == e.ev = "reconfigure"

\* the region-0 writes of key 0 (current height) and key 1 (current hash)
IsTerminalWrite(e) == e.ev = "store" /\ e.region = 0 /\ e.key \in {"0", "1"}

\* in each call of finalize_block, insert_tx_hash is done when Pool::update
\* starts, and Pool::update is done when a terminal region-0 write is issued
HistoryPoolRegion0(events) ==
    \A j \in DOMAIN events :
        /\ IsPoolUpdate(events[j]) =>
              CountOf(events, j, IsInsertTxHash) = CountOf(events, j, IsCallStart)
        /\ IsTerminalWrite(events[j]) =>
              CountOf(events, j, IsPoolUpdate) = CountOf(events, j, IsCallStart)

\* C27: within finalize_block, Authenticator.insert_tx_hash(height, tx_hashes)
\* completes before Pool.update(tx_hashes) starts, and Pool.update completes
\* before the region-0 writes of key 0 and key 1 are issued.
C27_InsertPoolRegion0 ==
    [][/\ (last'.op = "commit_block" /\ last'.result \in {"Ok", "panic"}) =>
            \A c \in ProposeCommits : CommitStep(c) =>
                HistoryPoolRegion0(commit_block(c.height, c.proposal, SomeProof).st.events)
       /\ (last'.op = "process_block" /\ last'.result \in {"Ok", "panic"}) =>
            \A i \in ProposeProcesses : ProcessStep(i) =>
                HistoryPoolRegion0(process_block(i.block, i.env).st.events)]_vars

\* commit_block finalized a block with a transaction
C27_Witness ==
    /\ last.op = "commit_block"
    /\ last.result = "Ok"
    /\ block_number > init_block_number
    /\ block_number \in DOMAIN finalized
    /\ finalized[block_number] = <<"n1">>

\* in each call of finalize_block, Pool::update has been called when reconfigure
\* is called
ReconfigureAfterPool(events) ==
    \A j \in DOMAIN events :
        IsReconfigure(events[j]) =>
            CountOf(events, j, IsPoolUpdate) = CountOf(events, j, IsCallStart)

\* C28: within finalize_block, every Consensus.reconfigure call happens after
\* Pool.update has been invoked for that block, and has completed before
\* finalize_block returns (a reconfigure that fails ends the process).
C28_ReconfigureAfterPool ==
    [][(last'.op = "process_block" /\ last'.result = "Ok") =>
          \A i \in RecoverProcesses :
              ProcessBlock(i.block, i.env, StorageTrue) =>
                  ReconfigureAfterPool(process_block(i.block, i.env).st.events)]_vars

-----------------------------------------------------------------------------
(* The candidate *)

\* C29: candidate invariant: in every reachable state in which candidate_block
\* is set, the candidate has height block_number + len(main_chain) + 1, its
\* prevhash is the last main_chain hash (block_hash when main_chain is empty),
\* and the same block is in fork_tree[len(main_chain)] under the candidate hash.
C29_CandidateInvariant ==
    candidate_block # NoCandidate =>
        LET level == Len(main_chain) + 1
        IN /\ candidate_block[1] = block_number + Len(main_chain) + 1
           /\ candidate_block[3].header.prevhash =
                 (IF main_chain = <<>> THEN block_hash ELSE main_chain[Len(main_chain)])
           /\ level \in DOMAIN fork_tree
           /\ candidate_block[2] \in DOMAIN fork_tree[level]
           /\ fork_tree[level][candidate_block[2]] = candidate_block[3]

\* C30: every transaction that add_proposal puts into a locally produced
\* proposal of height h = block_number + len(main_chain) + 1 has
\* valid_until_block > h; pool entries with valid_until_block <= h are skipped.
C30_PackagedStillValid ==
    [][(last'.op = "add_proposal" /\ last'.result = "Ok") =>
          /\ candidate_block' # NoCandidate
          /\ candidate_block'[1] = block_number + Len(main_chain) + 1
          /\ \A raw \in Range(candidate_block'[3].body) :
                raw.kind = "normal" => raw.valid_until_block > candidate_block'[1]]_vars

-----------------------------------------------------------------------------
(* Proposals near genesis *)

\* C31: for every candidate height h > block_number, including h <=
\* block_delay_number, get_proposal/assemble_proposal compute the reference
\* height h - block_delay_number - 1 without unsigned 64-bit underflow and return
\* either a proposal (whose block has an empty proof) or NoEarlyStatus.
C31_ReferenceHeight ==
    [][(last'.op = "get_proposal" /\ candidate_block # NoCandidate) =>
          /\ candidate_block[1] > block_number
          /\ candidate_block[1] >= block_delay_number + 1
          /\ last'.result \in {"Ok", "NoEarlyStatus"}
          /\ ~crashed']_vars

-----------------------------------------------------------------------------
(* The head *)

ChainProcesses == ProcessInputs(ChainBodies(init_block_number), {EnvGood})

\* the header height of the block a hash names (get_block_hash is injective)
HeightOf(hash) == hash[3]

\* C32: the ChainStatus returned by a successful commit_block describes one
\* block, the new head: its height and its hash belong to the same block (when
\* the commit finalized blocks, height = block_number and hash = block_hash after
\* the commit).
C32_StatusOfHead ==
    [][(last'.op = "commit_block" /\ last'.result = "Ok") =>
          \A c \in ChainCommits : CommitStep(c) =>
              LET status == commit_block(c.height, c.proposal, SomeProof).result.val
              IN /\ HeightOf(status.hash) = status.height
                 /\ block_number' > block_number =>
                       (status.height = block_number' /\ status.hash = block_hash')]_vars

-----------------------------------------------------------------------------
(* Admission next to finalization *)

\* a transaction of the history window: check_tx_hash turns its hash away
InHistory(raw, hist) == ~check_tx_hash(hist, raw.transaction_hash).ok

\* C33: under every interleaving of send_raw_transaction (check_raw_tx under the
\* read lock of the Authenticator, then enqueue under the write lock of the Pool)
\* with a finalization, the pool never holds a Normal transaction whose hash is
\* in the history window, and no such transaction is packaged into a proposal.
C33_PoolOutsideHistory ==
    [][/\ \A raw \in Range(pool') :
             raw.kind = "normal" => ~InHistory(raw, history_hashes')
       /\ (last'.op = "add_proposal" /\ last'.result = "Ok") =>
             \A raw \in Range(candidate_block'[3].body) :
                 raw.kind = "normal" => ~InHistory(raw, history_hashes')]_vars

-----------------------------------------------------------------------------
(* The main chain *)

\* C34: a proposal produced by add_proposal on top of a non-empty main_chain
\* contains no transaction whose hash is in main_chain_tx_hash, so committing the
\* node's own consecutive proposals never fails with a duplicate-tx error.
C34_NoInFlightTx ==
    [][(last'.op = "add_proposal" /\ last'.result = "Ok" /\ main_chain # <<>>) =>
          \A raw \in Range(candidate_block'[3].body) :
              raw.transaction_hash \notin Range(main_chain_tx_hash)]_vars

\* the region-4 writes of a handler, one per call of finalize_block, in order
Region4Writes(events) == SelectSeq(events, IsCallStart)

C36_HeadConsistency ==
    [][/\ block_number' >= block_number
       /\ (last'.op \in {"commit_block", "process_block"} /\ last'.result = "Ok") =>
             /\ block_number' = HeightOf(block_hash')
             /\ block_number' = stored'.height]_vars

-----------------------------------------------------------------------------
(* The fork tree *)

\* C37: fork-tree level alignment: in every reachable state, every block stored
\* in fork_tree[i] has header height block_number + i + 1 (levels counted from 0).
C37_LevelAlignment ==
    \A level \in DOMAIN fork_tree :
        \A hash \in DOMAIN fork_tree[level] :
            fork_tree[level][hash].header.height = block_number + (level - 1) + 1

\* C38: main-chain well-formedness: in every reachable state, main_chain[i] is
\* the hash of a block that is present in fork_tree[i] with a non-empty proof,
\* the prevhash of main_chain[0] is block_hash and the prevhash of main_chain[i+1]
\* is main_chain[i]; in particular a block committed by commit_block is stored in
\* the fork tree together with its proof.
C38_MainChainWellFormed ==
    \A i \in DOMAIN main_chain :
        /\ i \in DOMAIN fork_tree
        /\ main_chain[i] \in DOMAIN fork_tree[i]
        /\ fork_tree[i][main_chain[i]].proof # NoProof
        /\ fork_tree[i][main_chain[i]].header.prevhash =
              (IF i = 1 THEN block_hash ELSE main_chain[i - 1])

\* the committed blocks the hashes of main_chain name: commit_block keeps them
\* nowhere, the history of accepted commits does
MainChainBodies ==
    [i \in DOMAIN main_chain |->
        {TxHashes(c.proposal.block.body) :
            c \in {x \in committed : /\ x.proposal.kind = "bft" /\ x.proposal.has_block
                                      /\ get_block_hash(x.proposal.block.header) = main_chain[i]}}]

\* main_chain_tx_hash is the set of tx hashes of the blocks of main_chain
TxHashesOfMainChain ==
    /\ \A i \in DOMAIN main_chain : MainChainBodies[i] # {}
    /\ Range(main_chain_tx_hash) =
          UNION {Range(txs) : txs \in UNION {MainChainBodies[i] : i \in DOMAIN main_chain}}

\* C39: in every reachable state main_chain_tx_hash is exactly the set of tx
\* hashes contained in the blocks of main_chain: after a commit that finalizes
\* blocks it contains the hashes of the retained blocks and none of the finalized
\* blocks' hashes.
C39_MainChainTxHash ==
    /\ TxHashesOfMainChain
    /\ [][/\ TxHashesOfMainChain'
          /\ (last'.op = "commit_block" /\ last'.result = "Ok"
                /\ block_number' > block_number) =>
                Range(main_chain_tx_hash') \cap Range(finalized'[HeightOf(block_hash')]) = {}]_vars

\* a committed block with a transaction waits in main_chain
C39_Witness ==
    /\ last.op = "commit_block"
    /\ last.result = "Ok"
    /\ Len(main_chain) = 1
    /\ main_chain_tx_hash = <<"n1">>

-----------------------------------------------------------------------------
(* Aborts while finalizing *)

\* C40: crash consistency of finalize: at every point at which the process may
\* abort during finalize_block, if region 0 key 0 holds height H then region 0
\* key 1 holds the hash of the block at H and the region 4, region 6 and region 8
\* entries for H are stored, so a restart never reads a current height whose
\* block data is missing.
C40_CrashConsistency ==
    /\ stored.height \in DOMAIN stored.region4
    /\ stored.region4[stored.height] = stored.hash
    /\ stored.height \in stored.region6
    /\ stored.hash \in DOMAIN stored.region8
    /\ stored.region8[stored.hash] = stored.height
====
